---- MODULE Spec2Model ----
(***************************************************************************)
(* Activity polling of the Jot bot: the cursor a thread keeps in the KV    *)
(* store and the dispatch of a session's new activities to the chat.       *)
(*                                                                         *)
(* The repository holds two polling engines:                               *)
(*   cron : processNewActivities (src/cron/pollActivities.ts); the cursor  *)
(*          is the name of the last activity processed (last_activity_id). *)
(*   jot  : pollActivities (jot/src/activities.ts); the cursor is the      *)
(*          createTime of the last activity (last_activity_timestamp).     *)
(* Each engine has its own specification over the same variables.          *)
(***************************************************************************)
EXTENDS Integers, Sequences, FiniteSets, TLC

\* Bounds of the model.
MaxAct == 3
MaxRuns == 2
MaxSec == 2
MaxOverlapAct == 3
MaxOverlapRuns == 2
MaxGroups == 2
MaxSessions == 3
MaxFaults == 1
MaxPolls == 2
MaxAttempts == 3
MaxDelayMs == 3
MaxMultiplier == 2
MaxPages == 3
MaxPageCost == 2
MaxBudget == 3
MaxPhrases == 2
MaxChars == 2
MaxFiles == 6
MaxThreads == 2
MaxCreated == 3
SessionsPageSize == 2 \* the sessions that one page of the remote listing holds
MaxIsolates == 2 \* the isolates that serve invocations at the same time
MaxValues == 2 \* the values written under one key
MaxWebhooks == 2 \* the webhook invocations that overlap

\* A KV value is <<>> (KV.get returns null) or <<v>>.
NULL == <<>>

VARIABLES
    remote,      \* the activities the remote lists for the session, in the order it returns them
    cursor,      \* KV: last_activity_id (cron) or last_activity_timestamp (jot) of the thread
    active,      \* KV (jot): the session is in active_sessions_index
    pc,          \* per invocation: where it stands
    lastRead,    \* per invocation: the cursor value it read
    batch,       \* per invocation: newActivities
    pos,         \* per invocation: index of the activity of the for-of loop
    runs,        \* per invocation: polling runs started
    tried,       \* history, per run: names handed to the dispatch step, in order
    failed,      \* history, per run: names whose dispatch threw
    wrote,       \* history, per run: names whose cursor write completed, in order
    sent,        \* history: what the chat received: [name, via]
    ackedBefore, \* history: names whose cursor write completed in an earlier run
    prevClean,   \* history, per invocation: its previous run ran to the end and nothing threw
    \* the loop over the sessions of the index (one polling run)
    kvIndex,     \* KV: the sessions index, entries [groupId, sessionId]
    token,       \* KV: per group, whether a jules token is stored
    fault,       \* per session: what a poll of it meets at the remote
    opc,         \* where the loop over the sessions stands
    loopList,    \* the index as read at the start of the run
    oi,          \* index of the session of the for-of loop
    polled,      \* history, per run: the sessions whose activities were fetched, in order
    oruns,       \* polling runs started
    \* one call of the retry executor
    finalConfig, \* the retry policy of the call
    rop,         \* the remote operation the call wraps
    shouldRetry, \* the predicate of retryOnSpecificErrors
    rpc,         \* where the call stands
    attempt,     \* the loop variable
    delayMs,     \* the delay of the next sleep
    lastError,   \* the last error caught
    thrown,      \* the error the call threw
    raised,      \* history: the errors the attempts raised, in order
    sleeps,      \* history: the durations slept, in order
    ncalls,      \* history: invocations of the operation
    accepted,    \* history: requests the remote accepted and carried out
    \* one listing of the sources catalog
    catalog,     \* the remote catalog: per page, the next-page token it returns (0 for none)
    pageCost,    \* what the fetch of one page takes, in ticks
    budget,      \* the caller's time budget, in ticks
    maxPages,    \* the page limit of refreshSourcesForToken
    ppc,         \* where the listing stands
    pageToken,   \* the token of the next request (0 for none)
    allSources,  \* the pages collected, in order
    requestCount,\* page requests made
    seenTokens,  \* the tokens seen
    elapsed,     \* ticks since the listing began
    result,      \* what the listing returned
    \* one application of a function of the classifier, the formatter or the key scheme
    input,       \* the argument
    output,      \* the value returned (NULL before the call)
    \* the handlers of the bot on the threads of one group
    engine,      \* "cron" or "jot": the bot that is deployed
    julesToken,  \* the group has a Jules token
    source,      \* the group has a source
    sessionOf,   \* thread -> NULL or <<the stored session record>>
    created,     \* the remote sessions created so far
    pendingPlan, \* thread -> the KV value of the pending-plan flag
    planShown,   \* thread -> a plan-generated notification was sent and no approval succeeded since
    op,          \* the handler that ran last, and its thread
    readyForReview, \* thread -> the KV value of the ready-for-review flag
    reviewShown,    \* thread -> a ready-for-review notification was sent
    published,      \* thread -> a publish action has succeeded since that notification
    activeSessions, \* the sessions index of the group, as stored
    cursorOf,       \* thread -> the KV value of the cursor
    remoteSessions, \* the ids of the sessions that exist on the remote side
    swept,          \* the entries the last reconciliation pass found missing from the listing
    store,          \* the KV store that the invocations share: key -> KV value
    cache,          \* isolate -> key -> the entry of the isolate's in-memory cache
    inv,            \* invocation -> its position and what it has read so far
    seen            \* what the reads and the remote calls of the invocations have returned

pollVars == <<remote, cursor, active, pc, lastRead, batch, pos, runs,
              tried, failed, wrote, sent, ackedBefore, prevClean>>

orchVars == <<kvIndex, token, fault, opc, loopList, oi, polled, oruns>>

retryVars == <<finalConfig, rop, shouldRetry, rpc, attempt, delayMs, lastError, thrown,
               raised, sleeps, ncalls, accepted>>

pageVars == <<catalog, pageCost, budget, maxPages, ppc, pageToken, allSources, requestCount,
              seenTokens, elapsed, result>>

pureVars == <<input, output>>

\* the part of the bot's state that the creation, the deletion and the reconciliation
\* of sessions and the publish actions read and write
trackVars ==
    <<readyForReview, reviewShown, published, activeSessions, cursorOf, remoteSessions, swept>>

botVars ==
    <<engine, julesToken, source, sessionOf, created, pendingPlan, planShown, op, trackVars>>

\* what the polling of one thread leaves alone
\* the store, the caches of the isolates and the invocations that overlap
isoVars == <<store, cache, inv, seen>>

extVars == <<orchVars, retryVars, pageVars, pureVars, botVars, isoVars>>

\* what the other parts leave alone
notOrchVars == <<pollVars, retryVars, pageVars, pureVars, botVars, isoVars>>
notRetryVars == <<pollVars, orchVars, pageVars, pureVars, botVars, isoVars>>
notPageVars == <<pollVars, orchVars, retryVars, pureVars, botVars, isoVars>>
notPureVars == <<pollVars, orchVars, retryVars, pageVars, botVars, isoVars>>
notBotVars == <<pollVars, orchVars, retryVars, pageVars, pureVars, isoVars>>
notIsoVars == <<pollVars, orchVars, retryVars, pageVars, pureVars, botVars>>

vars == <<pollVars, extVars>>

\* no loop over the sessions is modelled
OrchIdle ==
    /\ kvIndex = <<>>
    /\ token = <<>>
    /\ fault = <<>>
    /\ opc = "idle"
    /\ loopList = <<>>
    /\ oi = 0
    /\ polled = <<>>
    /\ oruns = 0

\* no call of the retry executor is modelled
RetryIdle ==
    /\ finalConfig = <<>>
    /\ rop = "none"
    /\ shouldRetry = "none"
    /\ rpc = "idle"
    /\ attempt = 0
    /\ delayMs = 0
    /\ lastError = NULL
    /\ thrown = NULL
    /\ raised = <<>>
    /\ sleeps = <<>>
    /\ ncalls = 0
    /\ accepted = 0

\* no listing of the catalog is modelled
PageIdle ==
    /\ catalog = <<>>
    /\ pageCost = 0
    /\ budget = 0
    /\ maxPages = 0
    /\ ppc = "idle"
    /\ pageToken = 0
    /\ allSources = <<>>
    /\ requestCount = 0
    /\ seenTokens = {}
    /\ elapsed = 0
    /\ result = NULL

\* no function application is modelled
PureIdle ==
    /\ input = <<>>
    /\ output = NULL

\* no handler of the bot is modelled
BotIdle ==
    /\ engine = "none"
    /\ julesToken = FALSE
    /\ source = FALSE
    /\ sessionOf = <<>>
    /\ created = 0
    /\ pendingPlan = <<>>
    /\ planShown = <<>>
    /\ op = <<>>
    /\ readyForReview = <<>>
    /\ reviewShown = <<>>
    /\ published = <<>>
    /\ activeSessions = <<>>
    /\ cursorOf = <<>>
    /\ remoteSessions = {}
    /\ swept = {}

IsoIdle ==
    /\ store = <<>>
    /\ cache = <<>>
    /\ inv = <<>>
    /\ seen = <<>>

ExtIdle == OrchIdle /\ RetryIdle /\ PageIdle /\ PureIdle /\ BotIdle /\ IsoIdle

Invocations == DOMAIN pc

Stopped == {"idle", "done", "error", "killed"}

(***************************************************************************)
(* Timestamps. createTime is an RFC 3339 string; the remote prints the     *)
(* fraction only when it is not zero, so "…:01Z" and "…:01.5Z" both occur. *)
(* [sec, frac] stands for second sec with frac = 1 for a printed fraction. *)
(***************************************************************************)
Timestamps == [sec : 1..MaxSec, frac : {0, 1}]

\* '1970-01-01T00:00:00Z'
Epoch == [sec |-> 0, frac |-> 0]

\* new Date(createTime).getTime(), in half seconds
getTime(t) == 2 * t.sec + t.frac

\* a > b on the strings: the seconds have a fixed width; after them "." sorts before "Z"
StrGreater(a, b) ==
    \/ a.sec > b.sec
    \/ a.sec = b.sec /\ a.frac = 0 /\ b.frac = 1

(***************************************************************************)
(* Activities. An activity is [name, createTime, shape]; shape is what the *)
(* dispatch step does with it.                                             *)
(*   cron: "text"  one sendMessage                                         *)
(*         "media" artifacts.media.data only: sendPhoto, and a sendMessage *)
(*                 "Failed to send media" when the photo fails             *)
(*         "empty" progressUpdated whose only artifact is media without    *)
(*                 data: nothing is sent                                   *)
(*   jot:  "text"  formatActivity returns a message                        *)
(*         "null"  a type formatActivity does not know: it returns null    *)
(*         "completed" sessionCompleted: a message, and the session leaves *)
(*                 the active index                                        *)
(***************************************************************************)
CronShapes == {"text", "media", "empty"}
JotShapes == {"text", "null", "completed"}

Older(a, b) == getTime(a.createTime) < getTime(b.createTime)

\* the shapes of a list of n activities: plain text, but for one of them at most
ShapeMaps(n, shapes) ==
    {sh \in [1..n -> shapes] : \A j, k \in 1..n : (sh[j] # "text" /\ sh[k] # "text") => j = k}

ListOrders(n) == {p \in [1..n -> 1..n] : \A i, j \in 1..n : p[i] = p[j] => i = j}

\* The lists the remote can return to the cron engine: activities 1..n, created in that
\* order, listed in any order.
CronLists ==
    UNION {{[k \in 1..n |-> [name |-> p[k],
                           createTime |-> [sec |-> p[k], frac |-> 0],
                           shape |-> sh[k]]] :
              p \in ListOrders(n), sh \in ShapeMaps(n, CronShapes)} : n \in 0..MaxAct}

\* The lists the remote can return to the jot engine.
JotLists ==
    UNION {{[k \in 1..n |-> [name |-> k, createTime |-> ts[k], shape |-> sh[k]]] :
              ts \in [1..n -> Timestamps], sh \in ShapeMaps(n, JotShapes)} : n \in 0..MaxAct}

ActivityByName(n) == CHOOSE a \in {remote[k] : k \in 1..Len(remote)} : a.name = n

(***************************************************************************)
(* cron engine: processNewActivities.                                      *)
(***************************************************************************)

\* activities.findIndex(a => a.name === id), 1-based; 0 for -1
findIndex(activities, id) ==
    IF \E k \in 1..Len(activities) : activities[k].name = id
    THEN CHOOSE k \in 1..Len(activities) :
            /\ activities[k].name = id
            /\ \A j \in 1..(k - 1) : activities[j].name # id
    ELSE 0

\* a faulty variant of the filter: the slice starts at the cursor's own activity
newActivitiesFromCursor(activities, lastActivityId) ==
    IF lastActivityId # NULL /\ findIndex(activities, lastActivityId[1]) # 0
    THEN SubSeq(activities, findIndex(activities, lastActivityId[1]), Len(activities))
    ELSE activities

\* a faulty variant of the filter: the cursor is ignored
newActivitiesAll(activities, lastActivityId) == activities

\* a faulty variant of the filter: nothing is new when the cursor's activity is not listed
newActivitiesNoneIfMissing(activities, lastActivityId) ==
    IF lastActivityId = NULL THEN activities
    ELSE IF findIndex(activities, lastActivityId[1]) # 0
    THEN SubSeq(activities, findIndex(activities, lastActivityId[1]) + 1, Len(activities))
    ELSE <<>>

\* the filter of processNewActivities: the activities after the cursor's, or all of them
newActivities(activities, lastActivityId) ==
    IF lastActivityId # NULL /\ findIndex(activities, lastActivityId[1]) # 0
    THEN SubSeq(activities, findIndex(activities, lastActivityId[1]) + 1, Len(activities))
    ELSE activities

\* a run begins: the cron trigger fires
StartRun(i) ==
    /\ pc[i] \in Stopped
    /\ runs[i] < (IF Cardinality(Invocations) > 1 THEN MaxOverlapRuns ELSE MaxRuns)
    /\ pc' = [pc EXCEPT ![i] = "read"]
    /\ runs' = [runs EXCEPT ![i] = @ + 1]
    /\ tried' = [tried EXCEPT ![i] = <<>>]
    /\ failed' = [failed EXCEPT ![i] = {}]
    /\ wrote' = [wrote EXCEPT ![i] = <<>>]
    /\ ackedBefore' = ackedBefore \cup {wrote[i][k] : k \in 1..Len(wrote[i])}
    /\ prevClean' = [prevClean EXCEPT ![i] = (pc[i] = "done" /\ failed[i] = {})]
    /\ batch' = [batch EXCEPT ![i] = <<>>]
    /\ pos' = [pos EXCEPT ![i] = 0]
    /\ lastRead' = [lastRead EXCEPT ![i] = NULL]
    /\ UNCHANGED <<remote, cursor, active, sent>>
    /\ UNCHANGED extVars

\* the for-of loop moves to the next activity, or the run ends
NextPos(i) ==
    IF pos[i] < Len(batch[i])
    THEN /\ pos' = [pos EXCEPT ![i] = @ + 1]
         /\ pc' = [pc EXCEPT ![i] = "process"]
    ELSE /\ pos' = pos
         /\ pc' = [pc EXCEPT ![i] = "done"]

\* const lastActivityId = await getLastActivityId(env, groupId, topicId)
getLastActivityId(i) ==
    /\ pc[i] = "read"
    /\ lastRead' = [lastRead EXCEPT ![i] = cursor]
    /\ pc' = [pc EXCEPT ![i] = "list"]
    /\ UNCHANGED <<remote, cursor, active, batch, pos, runs, tried, failed, wrote,
                   sent, ackedBefore, prevClean>>
    /\ UNCHANGED extVars

\* const activities = await julesClient.listActivities(sessionId), and the filter
listActivities(i) ==
    /\ pc[i] = "list"
    /\ \/ \* the call throws: the error leaves processNewActivities
          /\ pc' = [pc EXCEPT ![i] = "error"]
          /\ UNCHANGED <<batch, pos>>
       \/ /\ batch' = [batch EXCEPT ![i] = newActivities(remote, lastRead[i])]
          /\ IF Len(remote) = 0 \/ Len(newActivities(remote, lastRead[i])) = 0
             THEN /\ pc' = [pc EXCEPT ![i] = "done"]
                  /\ pos' = pos
             ELSE /\ pc' = [pc EXCEPT ![i] = "process"]
                  /\ pos' = [pos EXCEPT ![i] = 1]
    /\ UNCHANGED <<remote, cursor, active, lastRead, runs, tried, failed, wrote,
                   sent, ackedBefore, prevClean>>
    /\ UNCHANGED extVars

\* the faulty variant of the catch: the error leaves processNewActivities
rethrowProcessError(i) ==
    /\ pos' = pos
    /\ pc' = [pc EXCEPT ![i] = "error"]

\* the catch around the dispatch of one activity: the error is logged and the loop
\* goes on to the next activity
catchProcessError(i) == NextPos(i)

\* await processActivity(ctx, groupId, topicId, sessionId, activity), inside the try
processActivity(i) ==
    /\ pc[i] = "process"
    /\ LET a == batch[i][pos[i]] IN
       /\ tried' = [tried EXCEPT ![i] = Append(@, a.name)]
       /\ \/ \* sendMessage resolves
             /\ a.shape = "text"
             /\ sent' = sent \cup {[name |-> a.name, via |-> "message"]}
             /\ pc' = [pc EXCEPT ![i] = "write"]
             /\ UNCHANGED <<pos, failed>>
          \/ \* sendPhoto resolves; there is no text left to send
             /\ a.shape = "media"
             /\ sent' = sent \cup {[name |-> a.name, via |-> "photo"]}
             /\ pc' = [pc EXCEPT ![i] = "write"]
             /\ UNCHANGED <<pos, failed>>
          \/ \* sendPhoto rejects, which is caught; the notice is sent
             /\ a.shape = "media"
             /\ sent' = sent \cup {[name |-> a.name, via |-> "notice"]}
             /\ pc' = [pc EXCEPT ![i] = "write"]
             /\ UNCHANGED <<pos, failed>>
          \/ \* nothing to send: processActivity returns
             /\ a.shape = "empty"
             /\ pc' = [pc EXCEPT ![i] = "write"]
             /\ UNCHANGED <<pos, failed, sent>>
          \/ \* rendering or the last send throws
             /\ a.shape # "empty"
             /\ failed' = [failed EXCEPT ![i] = @ \cup {a.name}]
             /\ catchProcessError(i)
             /\ UNCHANGED sent
    /\ UNCHANGED <<remote, cursor, active, lastRead, batch, runs, wrote,
                   ackedBefore, prevClean>>
    /\ UNCHANGED extVars

\* await setLastActivityId(env, groupId, topicId, activity.name)
setLastActivityId(i) ==
    /\ pc[i] = "write"
    /\ LET a == batch[i][pos[i]] IN
       /\ cursor' = <<a.name>>
       /\ wrote' = [wrote EXCEPT ![i] = Append(@, a.name)]
    /\ NextPos(i)
    /\ UNCHANGED <<remote, active, lastRead, batch, runs, tried, failed,
                   sent, ackedBefore, prevClean>>
    /\ UNCHANGED extVars

\* the platform ends the invocation at an await (its wall-clock ceiling)
Terminate(i) ==
    /\ pc[i] \notin Stopped
    /\ pc' = [pc EXCEPT ![i] = "killed"]
    /\ UNCHANGED <<remote, cursor, active, lastRead, batch, pos, runs, tried, failed,
                   wrote, sent, ackedBefore, prevClean>>
    /\ UNCHANGED extVars

InitRun(invs) ==
    /\ cursor = NULL
    /\ active = TRUE
    /\ pc = [i \in invs |-> "idle"]
    /\ lastRead = [i \in invs |-> NULL]
    /\ batch = [i \in invs |-> <<>>]
    /\ pos = [i \in invs |-> 0]
    /\ runs = [i \in invs |-> 0]
    /\ tried = [i \in invs |-> <<>>]
    /\ failed = [i \in invs |-> {}]
    /\ wrote = [i \in invs |-> <<>>]
    /\ sent = {}
    /\ ackedBefore = {}
    /\ prevClean = [i \in invs |-> FALSE]
    /\ ExtIdle

InitCron ==
    /\ remote \in CronLists
    /\ InitRun({1})

NextCron ==
    \/ \E i \in Invocations : StartRun(i)
    \/ \E i \in Invocations : getLastActivityId(i)
    \/ \E i \in Invocations : listActivities(i)
    \/ \E i \in Invocations : processActivity(i)
    \/ \E i \in Invocations : setLastActivityId(i)
    \/ \E i \in Invocations : Terminate(i)

SpecCron == InitCron /\ [][NextCron]_vars

(***************************************************************************)
(* jot engine: pollActivities, for one entry of the active sessions index. *)
(***************************************************************************)

\* activities.filter(activity => activity.createTime > lastActivityTimestamp)
filterNew(activities, lastActivityTimestamp) ==
    SelectSeq(activities, LAMBDA a : StrGreater(a.createTime, lastActivityTimestamp))

\* JulesAPI.getNewActivities(sessionId, afterTime): the same filter, on the client; no
\* polling path calls it
getNewActivities(activities, afterTime) ==
    SelectSeq(activities, LAMBDA a : StrGreater(a.createTime, afterTime))

\* one step of the stable sort: a goes after every element that is not later than it
insertByTime(sorted, a) ==
    LET k == Cardinality({j \in 1..Len(sorted) :
                            getTime(sorted[j].createTime) <= getTime(a.createTime)})
    IN  SubSeq(sorted, 1, k) \o <<a>> \o SubSeq(sorted, k + 1, Len(sorted))

\* .sort((a, b) => new Date(a.createTime).getTime() - new Date(b.createTime).getTime())
RECURSIVE sortByCreateTime(_)
sortByCreateTime(activities) ==
    IF activities = <<>>
    THEN <<>>
    ELSE insertByTime(sortByCreateTime(SubSeq(activities, 1, Len(activities) - 1)),
                      activities[Len(activities)])

\* for (const sessionInfo of activeSessions): the session is polled while it is in the index
pollActivities(i) ==
    /\ active
    /\ StartRun(i)

\* const lastActivityTimestamp = await getKV(...) || '1970-01-01T00:00:00Z'
getLastActivityTimestamp(i) ==
    /\ pc[i] = "read"
    /\ lastRead' = [lastRead EXCEPT ![i] = IF cursor = NULL THEN <<Epoch>> ELSE cursor]
    /\ pc' = [pc EXCEPT ![i] = "list"]
    /\ UNCHANGED <<remote, cursor, active, batch, pos, runs, tried, failed, wrote,
                   sent, ackedBefore, prevClean>>
    /\ UNCHANGED extVars

\* const response = await listActivities(token, sessionInfo.sessionId), filter and sort
jotListActivities(i) ==
    /\ pc[i] = "list"
    /\ \/ \* the call throws: the catch around the session logs it
          /\ pc' = [pc EXCEPT ![i] = "error"]
          /\ UNCHANGED <<batch, pos>>
       \/ LET new == sortByCreateTime(filterNew(remote, lastRead[i][1])) IN
          /\ batch' = [batch EXCEPT ![i] = new]
          /\ IF Len(new) = 0
             THEN /\ pc' = [pc EXCEPT ![i] = "done"]
                  /\ pos' = pos
             ELSE /\ pc' = [pc EXCEPT ![i] = "process"]
                  /\ pos' = [pos EXCEPT ![i] = 1]
    /\ UNCHANGED <<remote, cursor, active, lastRead, runs, tried, failed, wrote,
                   sent, ackedBefore, prevClean>>
    /\ UNCHANGED extVars

\* const formattedMessage = await formatActivity(...); if (formattedMessage) await sendMessage(...)
formatAndSend(i) ==
    /\ pc[i] = "process"
    /\ LET a == batch[i][pos[i]] IN
       /\ tried' = [tried EXCEPT ![i] = Append(@, a.name)]
       /\ \/ \* formatted and sent
             /\ a.shape # "null"
             /\ sent' = sent \cup {[name |-> a.name, via |-> "message"]}
             /\ pc' = [pc EXCEPT ![i] = IF a.shape = "completed" THEN "remove" ELSE "write"]
             /\ UNCHANGED failed
          \/ \* formatActivity returns null: nothing is sent
             /\ a.shape = "null"
             /\ pc' = [pc EXCEPT ![i] = "write"]
             /\ UNCHANGED <<sent, failed>>
          \/ \* formatActivity or sendMessage throws: the catch is around the whole loop
             /\ a.shape # "null"
             /\ failed' = [failed EXCEPT ![i] = @ \cup {a.name}]
             /\ pc' = [pc EXCEPT ![i] = "error"]
             /\ UNCHANGED sent
    /\ UNCHANGED <<remote, cursor, active, lastRead, batch, pos, runs, wrote,
                   ackedBefore, prevClean>>
    /\ UNCHANGED extVars

\* if (activity.type === 'sessionCompleted') await removeActiveSession(...)
removeActiveSession(i) ==
    /\ pc[i] = "remove"
    /\ active' = FALSE
    /\ pc' = [pc EXCEPT ![i] = "write"]
    /\ UNCHANGED <<remote, cursor, lastRead, batch, pos, runs, tried, failed, wrote,
                   sent, ackedBefore, prevClean>>
    /\ UNCHANGED extVars

\* await setKV(..., `topic:${topicId}:last_activity_timestamp`, activity.createTime)
setLastActivityTimestamp(i) ==
    /\ pc[i] = "write"
    /\ LET a == batch[i][pos[i]] IN
       /\ cursor' = <<a.createTime>>
       /\ wrote' = [wrote EXCEPT ![i] = Append(@, a.name)]
    /\ NextPos(i)
    /\ UNCHANGED <<remote, active, lastRead, batch, runs, tried, failed,
                   sent, ackedBefore, prevClean>>
    /\ UNCHANGED extVars

InitJot ==
    /\ remote \in JotLists
    /\ InitRun({1})

NextJot ==
    \/ \E i \in Invocations : pollActivities(i)
    \/ \E i \in Invocations : getLastActivityTimestamp(i)
    \/ \E i \in Invocations : jotListActivities(i)
    \/ \E i \in Invocations : formatAndSend(i)
    \/ \E i \in Invocations : removeActiveSession(i)
    \/ \E i \in Invocations : setLastActivityTimestamp(i)
    \/ \E i \in Invocations : Terminate(i)

SpecJot == InitJot /\ [][NextJot]_vars

(***************************************************************************)
(* Two invocations of the cron engine overlapping on one thread: the next  *)
(* trigger fires while a run is still in progress. The remote lists the    *)
(* activities in creation order and every one of them is plain text.       *)
(***************************************************************************)
OverlapLists ==
    {[k \in 1..n |-> [name |-> k, createTime |-> [sec |-> k, frac |-> 0], shape |-> "text"]] :
        n \in 1..MaxOverlapAct}

InitOverlap ==
    /\ remote \in OverlapLists
    /\ InitRun({1, 2})

SpecOverlap == InitOverlap /\ [][NextCron]_vars

(***************************************************************************)
(* The cron engine starting from a stored cursor whose activity the remote *)
(* no longer lists (the stored name is of no listed activity).             *)
(***************************************************************************)
StaleCursor == <<0>>

InitStale ==
    /\ remote \in CronLists
    /\ cursor = StaleCursor
    /\ active = TRUE
    /\ pc = [i \in {1} |-> "idle"]
    /\ lastRead = [i \in {1} |-> NULL]
    /\ batch = [i \in {1} |-> <<>>]
    /\ pos = [i \in {1} |-> 0]
    /\ runs = [i \in {1} |-> 0]
    /\ tried = [i \in {1} |-> <<>>]
    /\ failed = [i \in {1} |-> {}]
    /\ wrote = [i \in {1} |-> <<>>]
    /\ sent = {}
    /\ ackedBefore = {}
    /\ prevClean = [i \in {1} |-> FALSE]
    /\ ExtIdle

SpecStale == InitStale /\ [][NextCron]_vars

(***************************************************************************)
(* The loop over the sessions of a polling run: pollActivitiesForGroup of  *)
(* the cron engine (the sessions of one group) and pollActivities of the   *)
(* jot engine (the active sessions of every group). What the poll of a     *)
(* session meets is the answer of the remote to the fetch of its           *)
(* activities.                                                             *)
(***************************************************************************)
Groups == 1..MaxGroups

\* the polling of one thread is not modelled
PollIdle ==
    /\ remote = <<>>
    /\ cursor = NULL
    /\ active = TRUE
    /\ pc = [i \in {1} |-> "idle"]
    /\ lastRead = [i \in {1} |-> NULL]
    /\ batch = [i \in {1} |-> <<>>]
    /\ pos = [i \in {1} |-> 0]
    /\ runs = [i \in {1} |-> 0]
    /\ tried = [i \in {1} |-> <<>>]
    /\ failed = [i \in {1} |-> {}]
    /\ wrote = [i \in {1} |-> <<>>]
    /\ sent = {}
    /\ ackedBefore = {}
    /\ prevClean = [i \in {1} |-> FALSE]

\* the answers to the fetch of a session's activities: the list, the list with the
\* sessionCompleted activity in it, or an error `Jules API error (<status>): <text>`;
\* status 0 stands for a fetch that got no response
Fetched == [status |-> 200, text |-> "activities"]
FetchedCompleted == [status |-> 200, text |-> "sessionCompleted"]
FetchErrors ==
    {[status |-> 401, text |-> "unauthorized"],
     [status |-> 403, text |-> "permission denied"],
     [status |-> 404, text |-> "not found"],
     [status |-> 429, text |-> "rate limit"],
     [status |-> 500, text |-> "internal"],
     [status |-> 0, text |-> "fetch failed"]}
Answers == {Fetched, FetchedCompleted} \cup FetchErrors

\* the message of the Error that request throws for a response that is not ok, as the
\* sequence of its parts; a fetch that got no response throws its own message
errorMessage(error) ==
    IF error.status = 0 THEN <<error.text>>
    ELSE <<"Jules API error (", ToString(error.status), "): ", error.text>>

\* String.prototype.toLowerCase on the parts of a message
lowerCasePart(part) ==
    CASE part = "Jules API error (" -> "jules api error ("
      [] part = "Unauthorized" -> "unauthorized"
      [] part = "Forbidden" -> "forbidden"
      [] part = "Not Found" -> "not found"
      [] OTHER -> part

messageToLowerCase(message) == [k \in 1..Len(message) |-> lowerCasePart(message[k])]

\* message.includes(word), for a word that is a part of the message
messageIncludes(message, word) == \E k \in 1..Len(message) : message[k] = word

\* message.includes('401') || message.includes('403') || message.includes('unauthorized')
isAuthError(error) ==
    LET message == messageToLowerCase(errorMessage(error)) IN
    \/ messageIncludes(message, "401")
    \/ messageIncludes(message, "403")
    \/ messageIncludes(message, "unauthorized")

\* message.includes('404') || message.includes('not found')
isSessionNotFoundError(error) ==
    LET message == messageToLowerCase(errorMessage(error)) IN
    \/ messageIncludes(message, "404")
    \/ messageIncludes(message, "not found")

\* the sessions index: session k of n belongs to any group
SessionIndexes ==
    UNION {{[k \in 1..n |-> [groupId |-> g[k], sessionId |-> k]] : g \in [1..n -> Groups]} :
              n \in 0..MaxSessions}

\* what the sessions meet: the list of activities, but for MaxFaults of them at most
FaultMaps(n) ==
    {f \in [1..n -> Answers] : Cardinality({k \in 1..n : f[k] # Fetched}) <= MaxFaults}

InitOrch ==
    /\ kvIndex \in SessionIndexes
    /\ token \in [Groups -> BOOLEAN]
    /\ fault \in FaultMaps(Len(kvIndex))
    /\ opc = "idle"
    /\ loopList = <<>>
    /\ oi = 0
    /\ polled = <<>>
    /\ oruns = 0
    /\ PollIdle
    /\ RetryIdle
    /\ PageIdle
    /\ PureIdle
    /\ BotIdle
    /\ IsoIdle

\* the for-of loop over the sessions moves on, or the run ends
NextSession ==
    IF oi < Len(loopList)
    THEN oi' = oi + 1 /\ opc' = "loop"
    ELSE oi' = oi /\ opc' = "done"

\* a faulty variant of the catch blocks: every error ends the loop
catchAlwaysBreak(error) == "break"

\* the catch of pollActivitiesForGroup: break on an auth error, on to the next otherwise
catchGroupError(error) ==
    IF isAuthError(error) THEN "break"
    ELSE IF isSessionNotFoundError(error) THEN "continue"
    ELSE "continue"

\* the catch of the jot engine's pollActivities: log, on to the next session
catchSessionError(error) == "continue"

\* pollActivitiesForGroup(env, bot, groupId), up to the loop
pollActivitiesForGroup(groupId) ==
    /\ opc \in {"idle", "done"}
    /\ oruns < MaxPolls
    /\ oruns' = oruns + 1
    /\ polled' = <<>>
    /\ LET sessionsIndex == SelectSeq(kvIndex, LAMBDA e : e.groupId = groupId) IN
       IF ~token[groupId] \/ Len(sessionsIndex) = 0
       THEN opc' = "done" /\ loopList' = <<>> /\ oi' = 0
       ELSE opc' = "loop" /\ loopList' = sessionsIndex /\ oi' = 1
    /\ UNCHANGED <<kvIndex, token, fault, notOrchVars>>

\* one turn of the loop of pollActivitiesForGroup: pollActivitiesForSession and the catch
pollActivitiesForSession ==
    /\ opc = "loop"
    /\ LET s == loopList[oi] IN
       /\ polled' = Append(polled, s)
       /\ IF fault[s.sessionId] \in FetchErrors /\ catchGroupError(fault[s.sessionId]) = "break"
          THEN opc' = "done" /\ oi' = oi
          ELSE NextSession
    /\ UNCHANGED <<kvIndex, token, fault, loopList, oruns, notOrchVars>>

NextGroup ==
    \/ \E groupId \in Groups : pollActivitiesForGroup(groupId)
    \/ pollActivitiesForSession

SpecGroup == InitOrch /\ [][NextGroup]_vars

\* const activeSessions = await getActiveSessions(env.JOT_KV)
getActiveSessions ==
    /\ opc \in {"idle", "done", "aborted"}
    /\ oruns < MaxPolls
    /\ oruns' = oruns + 1
    /\ polled' = <<>>
    /\ loopList' = kvIndex
    /\ IF Len(kvIndex) = 0
       THEN opc' = "done" /\ oi' = 0
       ELSE opc' = "loop" /\ oi' = 1
    /\ UNCHANGED <<kvIndex, token, fault, notOrchVars>>

\* one turn of the loop of the jot engine's pollActivities
pollSession ==
    /\ opc = "loop"
    /\ LET sessionInfo == loopList[oi] IN
       \/ \* the read of the group's token rejects: it is outside the try, the run ends
          /\ opc' = "aborted"
          /\ UNCHANGED <<oi, polled, kvIndex>>
       \/ \* no token: continue
          /\ ~token[sessionInfo.groupId]
          /\ NextSession
          /\ UNCHANGED <<polled, kvIndex>>
       \/ /\ token[sessionInfo.groupId]
          /\ polled' = Append(polled, sessionInfo)
          /\ kvIndex' = IF fault[sessionInfo.sessionId] = FetchedCompleted
                        THEN SelectSeq(kvIndex, LAMBDA e : e.sessionId # sessionInfo.sessionId)
                        ELSE kvIndex
          /\ IF /\ fault[sessionInfo.sessionId] \in FetchErrors
                /\ catchSessionError(fault[sessionInfo.sessionId]) = "break"
             THEN opc' = "done" /\ oi' = oi
             ELSE NextSession
    /\ UNCHANGED <<token, fault, loopList, oruns, notOrchVars>>

NextSessions ==
    \/ getActiveSessions
    \/ pollSession

SpecSessions == InitOrch /\ [][NextSessions]_vars

(***************************************************************************)
(* The retry executor: retryWithBackoff and retryOnSpecificErrors, wrapped *)
(* around one remote operation of the API client. An attempt returns, or   *)
(* raises one of the errors of the client; the remote may have carried out *)
(* a request whose attempt failed (the response was lost, or the server    *)
(* failed after the write).                                                *)
(***************************************************************************)
DEFAULT_RETRY_CONFIG ==
    [maxAttempts |-> 3, initialDelayMs |-> 1000, maxDelayMs |-> 10000, backoffMultiplier |-> 2]

\* { ...DEFAULT_RETRY_CONFIG, ...config }
RetryConfigs ==
    {DEFAULT_RETRY_CONFIG} \cup
    [maxAttempts : 0..MaxAttempts, initialDelayMs : 1..MaxDelayMs,
     maxDelayMs : 1..MaxDelayMs, backoffMultiplier : 1..MaxMultiplier]

\* the operations the client wraps: listActivities is a GET, createSession a POST
RemoteOperations == {"listActivities", "createSession"}

Min(a, b) == IF a <= b THEN a ELSE b

\* errorMessage.includes('network' | 'timeout' | 'fetch' | 'connection' | ...)
isNetworkError(error) == error.text = "fetch failed"

\* errorMessage.includes('rate limit') || errorMessage.includes('429')
isRateLimitError(error) == error.text = "rate limit" \/ error.status = 429

\* [408, 429, 500, 502, 503, 504].includes(statusCode)
isRetryableStatusCode(statusCode) == statusCode \in {408, 429, 500, 502, 503, 504}

RetryPredicates == {"isNetworkError", "isRateLimitError", "isRetryableStatusCode"}

\* shouldRetry(lastError)
shouldRetryError(predicate, error) ==
    CASE predicate = "isNetworkError" -> isNetworkError(error)
      [] predicate = "isRateLimitError" -> isRateLimitError(error)
      [] predicate = "isRetryableStatusCode" -> isRetryableStatusCode(error.status)

\* a faulty variant of the predicate test: no error is thrown at once
throwsNever(predicate, error) == FALSE

\* if (!shouldRetry(lastError)) throw lastError
throwsAtOnce(predicate, error) == ~shouldRetryError(predicate, error)

\* a faulty variant of the catch: the first error caught is kept
catchFirstError(previous, error) == IF previous = NULL THEN <<error>> ELSE previous

\* lastError = error instanceof Error ? error : new Error(String(error)); the operations
\* of the client raise Error objects
catchError(previous, error) == <<error>>

\* attempt === finalConfig.maxAttempts
lastAttempt(n, config) == n = config.maxAttempts

\* whether the remote may have carried out the request of an attempt that raised the error
mayHaveAccepted(error) == error.status \in {500, 0}

InitRetryWith(predicates) ==
    /\ finalConfig \in RetryConfigs
    /\ rop \in RemoteOperations
    /\ shouldRetry \in predicates
    /\ rpc = "idle"
    /\ attempt = 0
    /\ delayMs = 0
    /\ lastError = NULL
    /\ thrown = NULL
    /\ raised = <<>>
    /\ sleeps = <<>>
    /\ ncalls = 0
    /\ accepted = 0
    /\ PollIdle
    /\ OrchIdle
    /\ PageIdle
    /\ PureIdle
    /\ BotIdle
    /\ IsoIdle

\* retryWithBackoff(fn, config), up to the loop: the loop body does not run when
\* maxAttempts is below 1, and `new Error('Unknown error during retry')` is thrown
retryWithBackoff ==
    /\ rpc = "idle"
    /\ delayMs' = finalConfig.initialDelayMs
    /\ attempt' = 1
    /\ IF 1 <= finalConfig.maxAttempts
       THEN rpc' = "call" /\ thrown' = thrown
       ELSE rpc' = "thrown" /\ thrown' = <<[status |-> 0, text |-> "Unknown error during retry"]>>
    /\ UNCHANGED <<finalConfig, rop, shouldRetry, lastError, raised, sleeps, ncalls, accepted>>
    /\ UNCHANGED notRetryVars

\* an attempt returns: return await fn()
AttemptReturns ==
    /\ rpc = "call"
    /\ ncalls' = ncalls + 1
    /\ accepted' = accepted + 1
    /\ rpc' = "returned"
    /\ UNCHANGED <<finalConfig, rop, shouldRetry, attempt, delayMs, lastError, thrown,
                   raised, sleeps>>
    /\ UNCHANGED notRetryVars

\* an attempt of retryWithBackoff raises: the catch, the sleep and the next delay
AttemptRaises ==
    /\ rpc = "call"
    /\ \E error \in FetchErrors, done \in BOOLEAN :
          /\ done => mayHaveAccepted(error)
          /\ accepted' = IF done THEN accepted + 1 ELSE accepted
          /\ ncalls' = ncalls + 1
          /\ raised' = Append(raised, error)
          /\ lastError' = catchError(lastError, error)
          /\ IF lastAttempt(attempt, finalConfig)
             THEN \* break; throw lastError
                  /\ rpc' = "thrown"
                  /\ thrown' = catchError(lastError, error)
                  /\ UNCHANGED <<attempt, delayMs, sleeps>>
             ELSE /\ sleeps' = Append(sleeps, delayMs)
                  /\ delayMs' = Min(delayMs * finalConfig.backoffMultiplier,
                                    finalConfig.maxDelayMs)
                  /\ attempt' = attempt + 1
                  /\ IF attempt + 1 <= finalConfig.maxAttempts
                     THEN rpc' = "call" /\ thrown' = thrown
                     ELSE rpc' = "thrown" /\ thrown' = catchError(lastError, error)
    /\ UNCHANGED <<finalConfig, rop, shouldRetry>>
    /\ UNCHANGED notRetryVars

NextRetry ==
    \/ retryWithBackoff
    \/ AttemptReturns
    \/ AttemptRaises

InitRetry == InitRetryWith({"none"})

SpecRetry == InitRetry /\ [][NextRetry]_vars

\* the executor is not suspended for ever: a sleep ends, an attempt settles
FairSpecRetry == SpecRetry /\ WF_vars(NextRetry)

\* retryOnSpecificErrors(fn, shouldRetry, config), up to the loop
retryOnSpecificErrors ==
    /\ rpc = "idle"
    /\ shouldRetry \in RetryPredicates
    /\ delayMs' = finalConfig.initialDelayMs
    /\ attempt' = 1
    /\ IF 1 <= finalConfig.maxAttempts
       THEN rpc' = "call" /\ thrown' = thrown
       ELSE rpc' = "thrown" /\ thrown' = <<[status |-> 0, text |-> "Unknown error during retry"]>>
    /\ UNCHANGED <<finalConfig, rop, shouldRetry, lastError, raised, sleeps, ncalls, accepted>>
    /\ UNCHANGED notRetryVars

\* an attempt of retryOnSpecificErrors raises: the predicate, the sleep and the next delay
AttemptRaisesSpecific ==
    /\ rpc = "call"
    /\ \E error \in FetchErrors, done \in BOOLEAN :
          /\ done => mayHaveAccepted(error)
          /\ accepted' = IF done THEN accepted + 1 ELSE accepted
          /\ ncalls' = ncalls + 1
          /\ raised' = Append(raised, error)
          /\ lastError' = catchError(lastError, error)
          /\ IF throwsAtOnce(shouldRetry, error) \/ lastAttempt(attempt, finalConfig)
             THEN \* throw lastError
                  /\ rpc' = "thrown"
                  /\ thrown' = catchError(lastError, error)
                  /\ UNCHANGED <<attempt, delayMs, sleeps>>
             ELSE /\ sleeps' = Append(sleeps, delayMs)
                  /\ delayMs' = Min(delayMs * finalConfig.backoffMultiplier,
                                    finalConfig.maxDelayMs)
                  /\ attempt' = attempt + 1
                  /\ IF attempt + 1 <= finalConfig.maxAttempts
                     THEN rpc' = "call" /\ thrown' = thrown
                     ELSE rpc' = "thrown" /\ thrown' = catchError(lastError, error)
    /\ UNCHANGED <<finalConfig, rop, shouldRetry>>
    /\ UNCHANGED notRetryVars

NextRetrySpecific ==
    \/ retryOnSpecificErrors
    \/ AttemptReturns
    \/ AttemptRaisesSpecific

InitRetrySpecific == InitRetryWith(RetryPredicates)

SpecRetrySpecific == InitRetrySpecific /\ [][NextRetrySpecific]_vars

(***************************************************************************)
(* The listing of the sources catalog: listSources of the API client and   *)
(* refreshSourcesForToken of the cache refresh. The catalog is a list of   *)
(* pages; the token of a page is its number, and each page returns the     *)
(* token of the next (0 for none, any page for a remote that misbehaves).  *)
(* Time is counted in ticks: the fetch of a page takes pageCost.           *)
(***************************************************************************)
\* catalogs whose pages follow one another, and catalogs with any tokens
LinearCatalogs == {[p \in 1..n |-> IF p < n THEN p + 1 ELSE 0] : n \in 1..MaxPages}
Catalogs == UNION {[1..n -> 0..n] : n \in 1..MaxPages}

\* the page a request with the given token is answered with
pageOf(t) == IF t = 0 THEN 1 ELSE t

\* Safety limit: requestCount > 100
RequestCeiling == 100

\* a catalog that has a fresh next-page token on every page a listing can reach
LongCatalog ==
    [p \in 1..(RequestCeiling + 2) |-> IF p < RequestCeiling + 2 THEN p + 1 ELSE 0]

InitPages ==
    /\ catalog \in Catalogs \cup {LongCatalog}
    /\ pageCost \in 1..MaxPageCost
    /\ budget \in 1..MaxBudget
    /\ maxPages \in 1..(MaxPages + 1)
    /\ ppc = "idle"
    /\ pageToken = 0
    /\ allSources = <<>>
    /\ requestCount = 0
    /\ seenTokens = {}
    /\ elapsed = 0
    /\ result = NULL
    /\ PollIdle
    /\ OrchIdle
    /\ RetryIdle
    /\ PureIdle
    /\ BotIdle
    /\ IsoIdle

\* julesClient.listSources(9000): the parameter list of listSources is empty, the
\* argument is dropped
listSources ==
    /\ ppc = "idle"
    /\ ppc' = "fetch"
    /\ UNCHANGED <<catalog, pageCost, budget, maxPages, pageToken, allSources, requestCount,
                   seenTokens, elapsed, result>>
    /\ UNCHANGED notPageVars

\* one turn of the do-while loop of listSources; after it `return allSources`, an array:
\* the result has no hasMore (the caller reads it as undefined)
listSourcesPage ==
    /\ ppc = "fetch"
    /\ elapsed' = elapsed + pageCost
    /\ \/ \* retryWithBackoff throws: the error leaves listSources
          /\ ppc' = "thrown"
          /\ UNCHANGED <<pageToken, allSources, requestCount, seenTokens, result>>
       \/ LET page == pageOf(pageToken)
              next == catalog[page]
              stop == \/ next = 0
                      \/ next \in seenTokens
                      \/ requestCount + 1 > RequestCeiling
          IN  /\ allSources' = Append(allSources, page)
              /\ pageToken' = next
              /\ seenTokens' = IF next # 0 THEN seenTokens \cup {next} ELSE seenTokens
              /\ requestCount' = requestCount + 1
              /\ IF stop
                 THEN /\ ppc' = "returned"
                      /\ result' = <<[sources |-> Append(allSources, page)]>>
                 ELSE /\ ppc' = "fetch"
                      /\ result' = result
    /\ UNCHANGED <<catalog, pageCost, budget, maxPages>>
    /\ UNCHANGED notPageVars

NextListSources ==
    \/ listSources
    \/ listSourcesPage

SpecListSources == InitPages /\ [][NextListSources]_vars

\* refreshSourcesForToken(env, token, maxPages), up to the loop
refreshSourcesForToken ==
    /\ ppc = "idle"
    /\ ppc' = "fetch"
    /\ UNCHANGED <<catalog, pageCost, budget, maxPages, pageToken, allSources, requestCount,
                   seenTokens, elapsed, result>>
    /\ UNCHANGED notPageVars

\* one turn of the do-while loop of refreshSourcesForToken; requestCount is pageNum
refreshSourcesPage ==
    /\ ppc = "fetch"
    /\ elapsed' = elapsed + pageCost
    /\ requestCount' = requestCount + 1
    /\ \/ \* fetch rejects: the catch returns { count: 0, hasMore: false }
          /\ ppc' = "returned"
          /\ result' = <<[sources |-> <<>>, hasMore |-> FALSE]>>
          /\ UNCHANGED <<pageToken, allSources>>
       \/ \* !response.ok: break
          /\ ppc' = "returned"
          /\ result' = <<[sources |-> allSources, hasMore |-> pageToken # 0]>>
          /\ UNCHANGED <<pageToken, allSources>>
       \/ LET page == pageOf(pageToken)
              next == catalog[page]
          IN  /\ allSources' = Append(allSources, page)
              /\ pageToken' = next
              /\ IF requestCount + 1 >= maxPages \/ next = 0
                 THEN /\ ppc' = "returned"
                      /\ result' = <<[sources |-> Append(allSources, page),
                                      hasMore |-> next # 0]>>
                 ELSE /\ ppc' = "fetch"
                      /\ result' = result
    /\ UNCHANGED <<catalog, pageCost, budget, maxPages, seenTokens>>
    /\ UNCHANGED notPageVars

NextRefresh ==
    \/ refreshSourcesForToken
    \/ refreshSourcesPage

SpecRefresh == InitPages /\ [][NextRefresh]_vars

(***************************************************************************)
(* The classification of an activity and the notifications it is turned    *)
(* into.  A text is a sequence of phrases; includes() looks for a phrase   *)
(* in a text and toLowerCase() lowers every phrase of it.  A missing       *)
(* string and the empty string are both the empty sequence (the code reads *)
(* them alike: title?.toLowerCase() || '', if (title), description || '').  *)
(***************************************************************************)
TitlePhrases ==
    {"Plan generated", "plan created", "Plan approved", "Ready for review",
     "ready for review", "progress", "Completed", "finished", "Error",
     "failed", "question", "update"}

DescriptionPhrases == {"Ready for review", "error", "update"}

RECURSIVE TextsOf(_, _)
TextsOf(phrases, n) ==
    IF n = 0 THEN {<<>>}
    ELSE LET shorter == TextsOf(phrases, n - 1)
         IN  shorter \cup {Append(t, p) : t \in shorter, p \in phrases}

LowerCasePhrase(p) ==
    CASE p = "Plan generated" -> "plan generated"
      [] p = "Plan approved" -> "plan approved"
      [] p = "Ready for review" -> "ready for review"
      [] p = "Completed" -> "completed"
      [] p = "Error" -> "error"
      [] OTHER -> p

toLowerCase(text) == [k \in 1..Len(text) |-> LowerCasePhrase(text[k])]

includes(text, phrase) == \E k \in 1..Len(text) : text[k] = phrase

\* artifacts.bashOutput: missing, or with an exit code that may itself be missing
BashOutputs == {<<>>} \cup {<<[exitCode |-> e]>> : e \in {<<>>, <<0>>, <<1>>}}

\* artifacts.changeSet: missing, or with that many files
ChangeSets == {<<>>} \cup {<<[files |-> n]>> : n \in 0..1}

\* artifacts.media: missing, or with or without data
Medias == {<<>>} \cup {<<[data |-> d]>> : d \in BOOLEAN}

\* session?.requirePlanApproval of the thread: no session or no setting, or the setting
ApprovalSettings == {<<>>, <<TRUE>>, <<FALSE>>}

JotTypes == {"planGenerated", "planApproved", "progressUpdated", "sessionCompleted", "userMessaged"}

\* what processActivity of the cron engine is given; photoFails says that sendPhoto rejects
CronActivities ==
    [engine : {"cron"}, type : {"none"},
     title : TextsOf(TitlePhrases, MaxPhrases), description : TextsOf(DescriptionPhrases, 1),
     bashOutput : BashOutputs, changeSet : ChangeSets, media : Medias,
     photoFails : BOOLEAN, requirePlanApproval : {<<>>}]

\* what formatActivity of the jot engine reads of an activity and of the thread's session
JotActivities ==
    [engine : {"jot"}, type : JotTypes,
     title : TextsOf(TitlePhrases, MaxPhrases), description : {<<>>},
     bashOutput : BashOutputs, changeSet : {<<>>}, media : {<<>>},
     photoFails : {FALSE}, requirePlanApproval : ApprovalSettings]

getActivityType(activity) ==
    LET title == toLowerCase(activity.title)
        description == toLowerCase(activity.description)
    IN  IF includes(title, "plan generated") \/ includes(title, "plan created")
            THEN "planGenerated"
        ELSE IF includes(title, "plan approved")
            THEN "planApproved"
        ELSE IF includes(title, "ready for review") \/ includes(description, "ready for review")
            THEN "readyForReview"
        ELSE IF \/ includes(title, "progress")
                \/ activity.bashOutput # <<>>
                \/ activity.changeSet # <<>>
            THEN "progressUpdated"
        ELSE IF includes(title, "completed") \/ includes(title, "finished")
            THEN "sessionCompleted"
        ELSE "generic"

\* a call of the Telegram API that notifies the thread
Notification(method, silent) == [method |-> method, disable_notification |-> silent]

formatActivityMessage(title, description) ==
    IF \/ includes(toLowerCase(title), "ready for review")
       \/ includes(toLowerCase(description), "ready for review")
        THEN <<"ready for review!", "jules finalized the changes.">>
    ELSE IF title \o description # <<>> THEN title \o description
    ELSE <<"Activity received.">>

processPlanGenerated(activity) == <<Notification("sendMessage", FALSE)>>

processPlanApproved(activity) == <<Notification("sendMessage", TRUE)>>

processReadyForReview(activity) == <<Notification("sendMessage", FALSE)>>

\* the faulty variant that never rings
progressSilentAlways(hasError, hasMedia) == TRUE

\* disable_notification of the message of a progress update
progressSilent(hasError, hasMedia) == ~hasError /\ ~hasMedia

processProgressUpdated(activity) ==
    LET bash == activity.bashOutput
        exitCode == IF bash # <<>> /\ bash[1].exitCode # <<>> THEN bash[1].exitCode[1] ELSE 0
        hasError == bash # <<>> /\ exitCode # 0
        bashText == IF bash # <<>> THEN <<"command">> ELSE <<>>
        changeText ==
            IF activity.changeSet # <<>> /\ activity.changeSet[1].files > 0
            THEN <<"files modified">> ELSE <<>>
        hasMedia == activity.media # <<>>
        hasData == hasMedia /\ activity.media[1].data
        photo ==
            IF hasData /\ ~activity.photoFails
            THEN <<Notification("sendPhoto", FALSE)>> ELSE <<>>
        mediaText ==
            IF hasData /\ activity.photoFails
            THEN <<"failed to send media">> ELSE <<>>
        artifactsText == bashText \o changeText \o mediaText
        message ==
            IF artifactsText = <<>> /\ ~hasMedia
            THEN formatActivityMessage(activity.title, activity.description)
            ELSE artifactsText
    IN  photo \o
        (IF message # <<>>
         THEN <<Notification("sendMessage", progressSilent(hasError, hasMedia))>>
         ELSE <<>>)

processSessionCompleted(activity) == <<Notification("sendMessage", FALSE)>>

processGenericActivity(activity) ==
    LET message == toLowerCase(formatActivityMessage(activity.title, activity.description))
        hasImportantKeywords ==
            \/ includes(message, "error")
            \/ includes(message, "failed")
            \/ includes(message, "question")
    IN  <<Notification("sendMessage", ~hasImportantKeywords)>>

\* processActivity of the cron engine: the type it finds and the notifications it sends
processActivityByType(activity) ==
    LET activityType == getActivityType(activity)
    IN  [type |-> activityType,
         sent |->
            CASE activityType = "planGenerated" -> processPlanGenerated(activity)
              [] activityType = "planApproved" -> processPlanApproved(activity)
              [] activityType = "readyForReview" -> processReadyForReview(activity)
              [] activityType = "progressUpdated" -> processProgressUpdated(activity)
              [] activityType = "sessionCompleted" -> processSessionCompleted(activity)
              [] OTHER -> processGenericActivity(activity)]

\* formatActivity of the jot engine, and the message formatAndSend sends unless it is null
formatActivity(activity) ==
    LET approvalRequired ==
            IF activity.requirePlanApproval = <<>> THEN TRUE
            ELSE activity.requirePlanApproval[1]
        bash == activity.bashOutput
    IN  CASE activity.type = "planGenerated" ->
                [type |-> "planGenerated", sent |-> <<Notification("sendMessage", FALSE)>>]
          [] activity.type = "planApproved" ->
                [type |-> "planApproved", sent |-> <<Notification("sendMessage", TRUE)>>]
          [] activity.type = "progressUpdated" ->
                IF includes(activity.title, "Ready for review")
                THEN [type |-> "readyForReview",
                      sent |-> <<Notification("sendMessage", FALSE)>>]
                ELSE IF bash # <<>>
                THEN [type |-> "progressUpdated",
                      sent |-> <<Notification("sendMessage", bash[1].exitCode = <<0>>)>>]
                ELSE [type |-> "progressUpdated",
                      sent |-> <<Notification("sendMessage", TRUE)>>]
          [] activity.type = "sessionCompleted" ->
                [type |-> "sessionCompleted", sent |-> <<Notification("sendMessage", FALSE)>>]
          [] OTHER -> [type |-> "generic", sent |-> <<>>]

InitNotify ==
    /\ input \in CronActivities \cup JotActivities
    /\ input.photoFails => (input.media # <<>> /\ input.media[1].data)
    /\ output = NULL
    /\ PollIdle
    /\ OrchIdle
    /\ RetryIdle
    /\ PageIdle
    /\ BotIdle
    /\ IsoIdle

processActivityCall ==
    /\ input.engine = "cron"
    /\ output = NULL
    /\ output' = <<processActivityByType(input)>>
    /\ UNCHANGED <<input, notPureVars>>

formatActivityCall ==
    /\ input.engine = "jot"
    /\ output = NULL
    /\ output' = <<formatActivity(input)>>
    /\ UNCHANGED <<input, notPureVars>>

NextNotify ==
    \/ processActivityCall
    \/ formatActivityCall

SpecNotify == InitNotify /\ [][NextNotify]_vars

(***************************************************************************)
(* The formatters.  A string is a sequence of tokens: a character of a     *)
(* user- or remote-supplied string is a token of one character, a piece of *)
(* a template (a tag, a label) is a token of its own.  An entity written   *)
(* by a replace is the sequence of its characters.                         *)
(***************************************************************************)
Chars == {"a", "<", ">", "&", "\""}

\* the user- or remote-supplied strings of the model
Strings == TextsOf(Chars, MaxChars)

\* n times the character ch
Repeat(ch, n) == [k \in 1..n |-> ch]

RECURSIVE Flatten(_)
Flatten(parts) ==
    IF Len(parts) = 0 THEN <<>>
    ELSE IF Len(parts) = 1 THEN parts[1]
    ELSE LET mid == Len(parts) \div 2
         IN  Flatten(SubSeq(parts, 1, mid)) \o Flatten(SubSeq(parts, mid + 1, Len(parts)))

\* text.replace(/ch/g, entity)
replaceAll(text, ch, entity) ==
    Flatten([k \in 1..Len(text) |-> IF text[k] = ch THEN entity ELSE <<text[k]>>])

EntityAmp == <<"&", "a", "m", "p", ";">>
EntityLt == <<"&", "l", "t", ";">>
EntityGt == <<"&", "g", "t", ";">>
EntityQuot == <<"&", "q", "u", "o", "t", ";">>

escapeHtml(text) ==
    replaceAll(replaceAll(replaceAll(replaceAll(text,
        "&", EntityAmp), "<", EntityLt), ">", EntityGt), "\"", EntityQuot)

createExpandableBlockquote(title, content) ==
    <<"<b>">> \o escapeHtml(title) \o <<"</b>", "\n", "<blockquote expandable>">>
        \o escapeHtml(content) \o <<"</blockquote>">>

\* the threshold of formatBashOutput, in characters
InlineThreshold == 200

isShort(text) == Len(text) < InlineThreshold

formatBashOutput(command, text, exitCode) ==
    LET emoji == IF exitCode # 0 THEN "warning sign" ELSE "wrench"
        statusText == IF exitCode # 0 THEN <<"(exit code: 1)">> ELSE <<>>
    IN  IF isShort(text)
        THEN <<emoji, " ", "<b>", "Command:", "</b>", " ", "<code>">> \o escapeHtml(command)
                \o <<"</code>", " ">> \o statusText \o <<"\n\n", "<pre>">>
                \o escapeHtml(text) \o <<"</pre>">>
        ELSE createExpandableBlockquote(
                <<emoji, " Command: ">> \o command \o <<" ">> \o statusText, text)

\* the files of a change set are n files of one path
formatChangeSet(path, n) ==
    LET name == IF path # <<>> THEN path ELSE <<"unknown">>
    IN  IF n <= 5
        THEN <<"folder", " ", "<b>", "Files modified (n):", "</b>">>
                \o Flatten([k \in 1..n |->
                        <<"\n", "page", " ", "<code>">> \o escapeHtml(name) \o <<"</code>">>])
        ELSE createExpandableBlockquote(<<"folder", " Files modified (n files)">>,
                Flatten([k \in 1..n |-> <<"page", " ">> \o name \o <<"\n">>]))

\* the session outputs: missing, a string that is no JSON, or a JSON object,
\* of which a pull request's url, a branch's name and the commits are read
SessionOutputs ==
    [json : {"missing"}, text : {<<>>}, commits : {0}]
        \cup [json : {"no"}, text : Strings \ {<<>>}, commits : {0}]
        \cup [json : {"pullRequest", "branch"}, text : Strings, commits : 0..1]
        \cup [json : {"other"}, text : {<<>>}, commits : 0..1]

formatOutputs(outputs) ==
    LET raw == <<"{">> \o outputs.text \o <<"}">>
        parsedText ==
            (IF outputs.json = "pullRequest"
             THEN <<"PR", " ", "<b>", "Pull Request:", "</b>", " ">> \o outputs.text \o <<"\n">>
             ELSE <<>>)
            \o (IF outputs.json = "branch"
                THEN <<"leaf", " ", "<b>", "Branch:", "</b>", " ">> \o outputs.text \o <<"\n">>
                ELSE <<>>)
            \o (IF outputs.commits > 0
                THEN <<"memo", " ", "<b>", "Commits:", "</b>", " n", "\n">>
                ELSE <<>>)
    IN  IF outputs.json = "missing" THEN <<"No outputs available.">>
        ELSE IF outputs.json = "no" THEN escapeHtml(outputs.text)
        ELSE IF parsedText # <<>> THEN parsedText
        ELSE escapeHtml(raw)

\* formatExpandable of the jot engine
formatExpandable(title, content) ==
    LET escapedContent == replaceAll(replaceAll(content, "<", EntityLt), ">", EntityGt)
    IN  <<"<b>">> \o title \o <<"</b>", "\n", "<blockquote expandable>", "<pre>", "<code>">>
            \o escapedContent \o <<"</code>", "</pre>", "</blockquote>">>

\* the text formatActivity of the jot engine gives a progress update that is not ready
\* for review: bash is <<>> or holds the command, the output and the exit code
formatProgressText(title, bash) ==
    IF bash # <<>>
    THEN (IF bash[1].exitCode # 0 THEN <<"warning sign", " ">> ELSE <<>>)
            \o formatExpandable(
                <<"wrench", " Command executed: ", "<code>">> \o bash[1].command
                    \o <<"</code>", IF bash[1].exitCode # 0 THEN " (Exit: 1)" ELSE " (Exit: 0)">>,
                bash[1].output)
    ELSE <<"wrench", " ", "<b>", "Progress:", "</b>", " ">> \o title

\* the lengths of the command outputs of the model, around the threshold
OutputLengths ==
    {0, 1, InlineThreshold - 1, InlineThreshold, InlineThreshold + 1, 2 * InlineThreshold}

NoOutputs == [json |-> "missing", text |-> <<>>, commits |-> 0]

\* the calls of the formatters: text is the command, the path or the title, the command
\* output is n times the character unit, a change set has n files
FormatCalls ==
    [call : {"formatBashOutput", "formatProgressBash"}, text : Strings, unit : Chars,
     n : OutputLengths, exitCode : 0..1, outputs : {NoOutputs}]
        \cup [call : {"formatChangeSet"}, text : Strings, unit : {"a"},
              n : 0..MaxFiles, exitCode : {0}, outputs : {NoOutputs}]
        \cup [call : {"formatProgressTitle"}, text : Strings, unit : {"a"},
              n : {0}, exitCode : {0}, outputs : {NoOutputs}]
        \cup [call : {"formatOutputs"}, text : {<<>>}, unit : {"a"},
              n : {0}, exitCode : {0}, outputs : SessionOutputs]

InitFormat ==
    /\ input \in FormatCalls
    /\ output = NULL
    /\ PollIdle
    /\ OrchIdle
    /\ RetryIdle
    /\ PageIdle
    /\ BotIdle
    /\ IsoIdle

formatBashOutputCall ==
    /\ input.call = "formatBashOutput"
    /\ output = NULL
    /\ output' = <<formatBashOutput(input.text, Repeat(input.unit, input.n), input.exitCode)>>
    /\ UNCHANGED <<input, notPureVars>>

formatChangeSetCall ==
    /\ input.call = "formatChangeSet"
    /\ output = NULL
    /\ output' = <<formatChangeSet(input.text, input.n)>>
    /\ UNCHANGED <<input, notPureVars>>

formatOutputsCall ==
    /\ input.call = "formatOutputs"
    /\ output = NULL
    /\ output' = <<formatOutputs(input.outputs)>>
    /\ UNCHANGED <<input, notPureVars>>

formatProgressCall ==
    /\ input.call \in {"formatProgressBash", "formatProgressTitle"}
    /\ output = NULL
    /\ output' =
        <<formatProgressText(input.text,
            IF input.call = "formatProgressBash"
            THEN <<[command |-> input.text, output |-> Repeat(input.unit, input.n),
                    exitCode |-> input.exitCode]>>
            ELSE <<>>)>>
    /\ UNCHANGED <<input, notPureVars>>

NextFormat ==
    \/ formatBashOutputCall
    \/ formatChangeSetCall
    \/ formatOutputsCall
    \/ formatProgressCall

SpecFormat == InitFormat /\ [][NextFormat]_vars

(***************************************************************************)
(* The handlers of the bot that create a session in a thread, show a plan  *)
(* and approve it.  A handler runs as one step; a call of the remote or of *)
(* Telegram inside it returns or throws.                                   *)
(***************************************************************************)
Threads == 1..MaxThreads

InitBot ==
    /\ engine \in {"cron", "jot"}
    /\ julesToken \in BOOLEAN
    /\ source \in BOOLEAN
    /\ sessionOf = [t \in Threads |-> NULL]
    /\ created = 0
    /\ pendingPlan = [t \in Threads |-> NULL]
    /\ planShown = [t \in Threads |-> FALSE]
    /\ op = <<>>
    /\ readyForReview = [t \in Threads |-> NULL]
    /\ reviewShown = [t \in Threads |-> FALSE]
    /\ published = [t \in Threads |-> FALSE]
    /\ activeSessions = <<>>
    /\ cursorOf = [t \in Threads |-> NULL]
    /\ remoteSessions = {}
    /\ swept = {}
    /\ PollIdle
    /\ OrchIdle
    /\ RetryIdle
    /\ PageIdle
    /\ PureIdle
    /\ IsoIdle

\* an entry of the sessions index: the cron engine stores the session id alone
\* (topicId 0), the jot engine the session id with its topic
IndexEntry(sessionId, t) ==
    [sessionId |-> sessionId, topicId |-> IF engine = "jot" THEN t ELSE 0]

\* the faulty variant of addToSessionsIndex: the entry is pushed without a look
addToSessionsIndexAlways(index, entry) == Append(index, entry)

\* addToSessionsIndex (cron) and addActiveSession (jot), on the index as read
addToSessionsIndex(index, entry) ==
    IF \E k \in 1..Len(index) : index[k].sessionId = entry.sessionId
    THEN index
    ELSE Append(index, entry)

\* removeFromSessionsIndex (cron) and removeActiveSession (jot), on the index as read
removeFromSessionsIndex(index, sessionId) ==
    SelectSeq(index, LAMBDA e : e.sessionId # sessionId)

\* the handler name has run on thread t
Ran(name, t) == op' = <<[name |-> name, thread |-> t]>>

\* the handler has returned without a write
Replied ==
    UNCHANGED <<engine, julesToken, source, sessionOf, created, pendingPlan, planShown, trackVars>>

\* createSession returns the session created+1 and setSession stores it for the thread,
\* or createSession throws and the catch replies; nothing bounds the sessions but the model
createAndStore(t) ==
    \/ /\ created < MaxCreated
       /\ \E a \in ApprovalSettings :
            sessionOf' = [sessionOf EXCEPT
                            ![t] = <<[id |-> created + 1, requirePlanApproval |-> a]>>]
       /\ created' = created + 1
       /\ remoteSessions' = remoteSessions \cup {created + 1}
       /\ activeSessions' = addToSessionsIndex(activeSessions, IndexEntry(created + 1, t))
       /\ UNCHANGED <<engine, julesToken, source, pendingPlan, planShown>>
       /\ UNCHANGED <<readyForReview, reviewShown, published, cursorOf, swept>>
    \/ Replied

\* /new_session of the cron engine, with or without a prompt
handleNewSession(t) ==
    /\ engine = "cron"
    /\ Ran("handleNewSession", t)
    /\ \E hasPrompt \in BOOLEAN :
        IF ~hasPrompt \/ sessionOf[t] # NULL \/ ~julesToken \/ ~source
        THEN Replied
        ELSE createAndStore(t)
    /\ UNCHANGED notBotVars

\* a text message in a thread of the cron engine
handleTextMessage(t) ==
    /\ engine = "cron"
    /\ Ran("handleTextMessage", t)
    /\ IF ~julesToken \/ ~source THEN Replied
       ELSE IF sessionOf[t] = NULL THEN createAndStore(t)
       ELSE Replied
    /\ UNCHANGED notBotVars

\* a photo in a thread of the cron engine; the download of the image may fail
handlePhotoMessage(t) ==
    /\ engine = "cron"
    /\ Ran("handlePhotoMessage", t)
    /\ \E downloaded \in BOOLEAN :
        IF ~julesToken \/ ~source \/ ~downloaded THEN Replied
        ELSE IF sessionOf[t] = NULL THEN createAndStore(t)
        ELSE Replied
    /\ UNCHANGED notBotVars

\* bot.on('message:text') of the jot engine
onMessageText(t) ==
    /\ engine = "jot"
    /\ Ran("message:text", t)
    /\ IF sessionOf[t] # NULL THEN Replied
       ELSE IF ~julesToken \/ ~source THEN Replied
       ELSE createAndStore(t)
    /\ UNCHANGED notBotVars

\* bot.on('message:photo') of the jot engine
onMessagePhoto(t) ==
    /\ engine = "jot"
    /\ Ran("message:photo", t)
    /\ \E hasFilePath \in BOOLEAN :
        IF ~hasFilePath \/ ~julesToken \/ ~source THEN Replied
        ELSE createAndStore(t)
    /\ UNCHANGED notBotVars

\* processPlanGenerated of the cron engine, for an activity of the session of thread t:
\* the flag is put, then the message is sent, and the send returns or throws
planGeneratedCron(t) ==
    /\ engine = "cron"
    /\ sessionOf[t] # NULL
    /\ Ran("processPlanGenerated", t)
    /\ pendingPlan' = [pendingPlan EXCEPT ![t] = <<"true">>]
    /\ \/ planShown' = [planShown EXCEPT ![t] = TRUE]
       \/ UNCHANGED planShown
    /\ UNCHANGED <<engine, julesToken, source, sessionOf, created, trackVars>>
    /\ UNCHANGED notBotVars

\* formatActivity and the send of formatAndSend of the jot engine, for a generated plan
planGeneratedJot(t) ==
    /\ engine = "jot"
    /\ sessionOf[t] # NULL
    /\ Ran("formatAndSend", t)
    /\ LET setting == sessionOf[t][1].requirePlanApproval
           approvalRequired == IF setting = <<>> THEN TRUE ELSE setting[1]
       IN  pendingPlan' = IF approvalRequired
                          THEN [pendingPlan EXCEPT ![t] = <<"true">>]
                          ELSE pendingPlan
    /\ \/ planShown' = [planShown EXCEPT ![t] = TRUE]
       \/ UNCHANGED planShown
    /\ UNCHANGED <<engine, julesToken, source, sessionOf, created, trackVars>>
    /\ UNCHANGED notBotVars

\* approvePlan has returned and the handler writes the flag, or approvePlan has thrown
approveAndWrite(t, value) ==
    \/ /\ pendingPlan' = [pendingPlan EXCEPT ![t] = value]
       /\ planShown' = [planShown EXCEPT ![t] = FALSE]
       /\ UNCHANGED <<engine, julesToken, source, sessionOf, created, trackVars>>
    \/ Replied

\* the button under the plan of thread t is pressed (cron engine)
handleApprovePlanCallback(t) ==
    /\ engine = "cron"
    /\ planShown[t]
    /\ Ran("handleApprovePlanCallback", t)
    /\ IF ~julesToken THEN Replied ELSE approveAndWrite(t, <<"false">>)
    /\ UNCHANGED notBotVars

\* /approve_plan of the cron engine
handleApprovePlan(t) ==
    /\ engine = "cron"
    /\ Ran("handleApprovePlan", t)
    /\ IF sessionOf[t] = NULL \/ ~julesToken THEN Replied
       ELSE approveAndWrite(t, <<"false">>)
    /\ UNCHANGED notBotVars

\* /approve_plan of the jot engine
onApprovePlan(t) ==
    /\ engine = "jot"
    /\ Ran("approve_plan", t)
    /\ IF pendingPlan[t] = NULL \/ sessionOf[t] = NULL \/ ~julesToken THEN Replied
       ELSE approveAndWrite(t, NULL)
    /\ UNCHANGED notBotVars

\* the button under the plan of thread t is pressed (jot engine)
onCallbackApprovePlan(t) ==
    /\ engine = "jot"
    /\ planShown[t]
    /\ pendingPlan[t] # NULL
    /\ Ran("callback_query:data", t)
    /\ IF ~julesToken THEN Replied ELSE approveAndWrite(t, NULL)
    /\ UNCHANGED notBotVars

NextBot ==
    \/ \E t \in Threads : handleNewSession(t)
    \/ \E t \in Threads : handleTextMessage(t)
    \/ \E t \in Threads : handlePhotoMessage(t)
    \/ \E t \in Threads : onMessageText(t)
    \/ \E t \in Threads : onMessagePhoto(t)
    \/ \E t \in Threads : planGeneratedCron(t)
    \/ \E t \in Threads : planGeneratedJot(t)
    \/ \E t \in Threads : handleApprovePlanCallback(t)
    \/ \E t \in Threads : handleApprovePlan(t)
    \/ \E t \in Threads : onApprovePlan(t)
    \/ \E t \in Threads : onCallbackApprovePlan(t)

SpecBot == InitBot /\ [][NextBot]_vars

(***************************************************************************)
(* The keys of the store.  A key is the sequence of the parts that its     *)
(* template joins with ':'.                                                *)
(***************************************************************************)
GroupIds == {ToString(g) : g \in 1..MaxGroups}

TopicIds == {ToString(t) : t \in Threads}

\* keys of the cron engine, of a group
GroupKeyNames ==
    {"jules_token", "source", "default_branch", "automation_mode", "require_approval",
     "sessions_index"}

\* keys of the cron engine, of a topic of a group
TopicKeyNames == {"session", "last_activity_id", "pending_plan", "ready_for_review"}

keys(name, groupId, topicId) ==
    IF name \in GroupKeyNames
    THEN <<"group", groupId, name>>
    ELSE <<"group", groupId, "topic", topicId, name>>

\* getSourcesCache, setSourcesCache, clearSourcesCache: the key is made of the token's hash
sourcesCacheKey(tokenHash) == <<"cache", "sources", tokenHash>>

\* constructKey of the jot engine; key is the sequence of the parts of the caller's key
constructKey(groupId, key) == <<"group", groupId>> \o key

\* the key getSession and setSession of the jot engine hand to getKV and setKV
sessionKey(topicId) == <<"topic", topicId, "session">>

ACTIVE_SESSIONS_INDEX_KEY == <<"active_sessions_index">>

CONFIGURED_GROUPS_KEY == <<"configured_groups">>

\* the keys a function of the jot engine's kv module reads or writes for a group
keysOfJot(fn, groupId, topicId, key) ==
    CASE fn \in {"getKV", "setKV", "deleteKV"} -> {constructKey(groupId, key)}
      [] fn \in {"getSession", "setSession"} -> {constructKey(groupId, sessionKey(topicId))}
      [] fn \in {"getActiveSessions", "addActiveSession", "removeActiveSession"} ->
            {ACTIVE_SESSIONS_INDEX_KEY}
      [] OTHER -> {CONFIGURED_GROUPS_KEY}

\* the keys the callers of the jot engine hand to getKV, setKV and deleteKV
JotCallerKeys ==
    {<<"jules_token">>, <<"source">>} \cup
    {<<"topic", t, name>> : t \in TopicIds,
        name \in {"pending_plan", "last_activity_timestamp", "session"}}

\* the calls that touch the store for a group
KeyCalls ==
    [fn : GroupKeyNames \cup TopicKeyNames, groupId : GroupIds,
     topicId : TopicIds, key : {<<>>}]
        \cup [fn : {"sourcesCache"}, groupId : GroupIds, topicId : TopicIds, key : {<<>>}]
        \cup [fn : {"getKV", "setKV", "deleteKV"}, groupId : GroupIds,
              topicId : TopicIds, key : JotCallerKeys]
        \cup [fn : {"getSession", "setSession", "getActiveSessions", "addActiveSession",
                    "removeActiveSession", "getConfiguredGroups", "addConfiguredGroup"},
              groupId : GroupIds, topicId : TopicIds, key : {<<>>}]

InitKeys ==
    /\ input \in KeyCalls
    /\ output = NULL
    /\ PollIdle
    /\ OrchIdle
    /\ RetryIdle
    /\ PageIdle
    /\ BotIdle
    /\ IsoIdle

\* a storage function of the cron engine reads or writes its key
storageCall ==
    /\ input.fn \in GroupKeyNames \cup TopicKeyNames
    /\ output = NULL
    /\ output' = <<{keys(input.fn, input.groupId, input.topicId)}>>
    /\ UNCHANGED <<input, notPureVars>>

\* the cache of the sources is read or written with the token of the group
sourcesCacheCall ==
    /\ input.fn = "sourcesCache"
    /\ output = NULL
    /\ output' = <<{sourcesCacheKey("hash of the token of " \o input.groupId)}>>
    /\ UNCHANGED <<input, notPureVars>>

\* a function of the jot engine's kv module runs
kvCall ==
    /\ input.fn \in {"getKV", "setKV", "deleteKV", "getSession", "setSession",
                     "getActiveSessions", "addActiveSession", "removeActiveSession",
                     "getConfiguredGroups", "addConfiguredGroup"}
    /\ output = NULL
    /\ output' = <<keysOfJot(input.fn, input.groupId, input.topicId, input.key)>>
    /\ UNCHANGED <<input, notPureVars>>

NextKeys ==
    \/ storageCall
    \/ sourcesCacheCall
    \/ kvCall

SpecKeys == InitKeys /\ [][NextKeys]_vars

(***************************************************************************)
(* The life of a session after its creation: the ready-for-review          *)
(* notification and the publish callbacks, the local deletion, the         *)
(* reconciliation pass against the remote listing, and the remote side.    *)
(***************************************************************************)

\* the ids of the entries of an index
IdsOf(index) == {index[k].sessionId : k \in 1..Len(index)}

\* the threads of the entries of an index
TopicsOf(index) == {index[k].topicId : k \in 1..Len(index)}

\* the handler name has run, on no thread in particular
RanGroup(name) == op' = <<[name |-> name, thread |-> 0]>>

\* isReadyForReview: the flag reads true only when the stored value is 'true'
isReadyForReview(t) == readyForReview[t] = <<"true">>

\* deleteSession of the cron engine's storage: the session record, the cursor and
\* the two flags of the thread
deleteSessionKV(t) ==
    /\ sessionOf' = [sessionOf EXCEPT ![t] = NULL]
    /\ cursorOf' = [cursorOf EXCEPT ![t] = NULL]
    /\ pendingPlan' = [pendingPlan EXCEPT ![t] = NULL]
    /\ readyForReview' = [readyForReview EXCEPT ![t] = NULL]

\* processReadyForReview as processNewActivities dispatches it: the flag is written,
\* then the message is sent; the cursor advances unless the send throws
readyForReviewCron(t) ==
    /\ engine = "cron"
    /\ sessionOf[t] # NULL
    /\ Ran("processReadyForReview", t)
    /\ readyForReview' = [readyForReview EXCEPT ![t] = <<"true">>]
    /\ published' = [published EXCEPT ![t] = FALSE]
    /\ \/ /\ reviewShown' = [reviewShown EXCEPT ![t] = TRUE]
          /\ cursorOf' = [cursorOf EXCEPT ![t] = <<"activity">>]
       \/ UNCHANGED <<reviewShown, cursorOf>>
    /\ UNCHANGED <<engine, julesToken, source, sessionOf, created, pendingPlan, planShown>>
    /\ UNCHANGED <<activeSessions, remoteSessions, swept>>
    /\ UNCHANGED notBotVars

\* the body shared by the two publish callbacks: without a token a reply; else the
\* remote call, whose success edits the message and whose failure is answered
publishCallback(t) ==
    IF ~julesToken THEN Replied
    ELSE \/ /\ published' = [published EXCEPT ![t] = TRUE]
            /\ UNCHANGED <<engine, julesToken, source, sessionOf, created, pendingPlan, planShown>>
            /\ UNCHANGED <<readyForReview, reviewShown, activeSessions, cursorOf,
                           remoteSessions, swept>>
         \/ Replied

\* the button 'Publish Branch' under a ready-for-review notification
handlePublishBranchCallback(t) ==
    /\ engine = "cron"
    /\ reviewShown[t]
    /\ Ran("handlePublishBranchCallback", t)
    /\ publishCallback(t)
    /\ UNCHANGED notBotVars

\* the button 'Publish PR' under a ready-for-review notification
handlePublishPRCallback(t) ==
    /\ engine = "cron"
    /\ reviewShown[t]
    /\ Ran("handlePublishPRCallback", t)
    /\ publishCallback(t)
    /\ UNCHANGED notBotVars

\* the confirmation button of /delete_session in the cron engine; the button names a
\* session, and the thread's record must name the same one
handleDeleteSessionCallback(t) ==
    /\ engine = "cron"
    /\ Ran("handleDeleteSessionCallback", t)
    /\ \E sessionId \in 1..created :
        IF sessionOf[t] = NULL \/ sessionOf[t][1].id # sessionId
        THEN Replied
        ELSE /\ deleteSessionKV(t)
             /\ activeSessions' = removeFromSessionsIndex(activeSessions, sessionId)
             /\ UNCHANGED <<engine, julesToken, source, created, planShown>>
             /\ UNCHANGED <<reviewShown, published, remoteSessions, swept>>
    /\ UNCHANGED notBotVars

\* the delete_session callback of the jot engine, for the session of the thread: the
\* remote deletion, which may throw, then the index entry and the session record
onCallbackDeleteSession(t) ==
    /\ engine = "jot"
    /\ sessionOf[t] # NULL
    /\ Ran("onCallbackDeleteSession", t)
    /\ IF ~julesToken THEN Replied
       ELSE \/ LET sessionId == sessionOf[t][1].id IN
               /\ remoteSessions' = remoteSessions \ {sessionId}
               /\ activeSessions' = removeFromSessionsIndex(activeSessions, sessionId)
               /\ sessionOf' = [sessionOf EXCEPT ![t] = NULL]
               /\ UNCHANGED <<engine, julesToken, source, created, pendingPlan, planShown>>
               /\ UNCHANGED <<readyForReview, reviewShown, published, cursorOf, swept>>
            \/ Replied
    /\ UNCHANGED notBotVars

\* one turn of the loop of the jot engine's pollActivities, for the k-th entry of the
\* index: the cursor of the entry's thread advances, and a sessionCompleted activity
\* takes the entry out of the index
pollSessionInfo(k) ==
    /\ engine = "jot"
    /\ julesToken
    /\ k \in 1..Len(activeSessions)
    /\ LET sessionInfo == activeSessions[k] IN
       /\ Ran("pollActivities", sessionInfo.topicId)
       /\ cursorOf' = [cursorOf EXCEPT ![sessionInfo.topicId] = <<"activity">>]
       /\ \E completed \in BOOLEAN :
            activeSessions' = IF completed
                              THEN removeFromSessionsIndex(activeSessions, sessionInfo.sessionId)
                              ELSE activeSessions
    /\ UNCHANGED <<engine, julesToken, source, sessionOf, created, pendingPlan, planShown>>
    /\ UNCHANGED <<readyForReview, reviewShown, published, remoteSessions, swept>>
    /\ UNCHANGED notBotVars

\* a session is deleted on the remote side, outside the bot
deleteOnJules(sessionId) ==
    /\ sessionId \in remoteSessions
    /\ RanGroup("deleteOnJules")
    /\ remoteSessions' = remoteSessions \ {sessionId}
    /\ UNCHANGED <<engine, julesToken, source, sessionOf, created, pendingPlan, planShown>>
    /\ UNCHANGED <<readyForReview, reviewShown, published, activeSessions, cursorOf, swept>>
    /\ UNCHANGED notBotVars

\* what GET /sessions answers: the first page of the sessions, and listSessions asks
\* for no other page
Listings(existing) ==
    {page \in SUBSET existing :
        Cardinality(page) = IF Cardinality(existing) < SessionsPageSize
                            THEN Cardinality(existing)
                            ELSE SessionsPageSize}

\* the entries of the index whose id the listing does not hold
sessionsToDelete(index, listed) == SelectSeq(index, LAMBDA e : e.sessionId \notin listed)

\* syncSessionsForGroup of the cron engine: every id of the index that the listing does
\* not hold leaves the index, and nothing else is deleted; a listing that throws
\* is logged
syncSessionsForGroupCron ==
    /\ engine = "cron"
    /\ RanGroup("syncSessionsForGroup")
    /\ IF ~julesToken
       THEN swept' = {} /\ UNCHANGED activeSessions
       ELSE \/ swept' = {} /\ UNCHANGED activeSessions
            \/ \E listed \in Listings(remoteSessions) :
                LET deletedSessions == sessionsToDelete(activeSessions, listed) IN
                /\ swept' = IdsOf(deletedSessions)
                /\ activeSessions' =
                       SelectSeq(activeSessions, LAMBDA e : e.sessionId \in listed)
    /\ UNCHANGED <<engine, julesToken, source, sessionOf, created, pendingPlan, planShown>>
    /\ UNCHANGED <<readyForReview, reviewShown, published, cursorOf, remoteSessions>>
    /\ UNCHANGED notBotVars

\* syncSessionsForGroup of the jot engine: for every stale entry, in the order of the
\* index, the entry leaves the index and the session record, the cursor and the
\* pending-plan flag of its thread are deleted, then a message is sent; a send that
\* throws ends the pass after the deletions of that entry
syncSessionsForGroupJot ==
    /\ engine = "jot"
    /\ RanGroup("syncSessionsForGroup")
    /\ IF ~julesToken
       THEN swept' = {} /\ UNCHANGED <<activeSessions, sessionOf, cursorOf, pendingPlan>>
       ELSE \/ swept' = {} /\ UNCHANGED <<activeSessions, sessionOf, cursorOf, pendingPlan>>
            \/ \E listed \in Listings(remoteSessions) :
                LET stale == sessionsToDelete(activeSessions, listed) IN
                \E n \in (IF Len(stale) = 0 THEN {0} ELSE 1..Len(stale)) :
                    LET removed == SubSeq(stale, 1, n) IN
                    /\ swept' = IdsOf(stale)
                    /\ activeSessions' =
                           SelectSeq(activeSessions,
                                     LAMBDA e : e.sessionId \notin IdsOf(removed))
                    /\ sessionOf' = [t \in Threads |->
                           IF t \in TopicsOf(removed) THEN NULL ELSE sessionOf[t]]
                    /\ cursorOf' = [t \in Threads |->
                           IF t \in TopicsOf(removed) THEN NULL ELSE cursorOf[t]]
                    /\ pendingPlan' = [t \in Threads |->
                           IF t \in TopicsOf(removed) THEN NULL ELSE pendingPlan[t]]
    /\ UNCHANGED <<engine, julesToken, source, created, planShown>>
    /\ UNCHANGED <<readyForReview, reviewShown, published, remoteSessions>>
    /\ UNCHANGED notBotVars

\* the ready-for-review notification and what the user may do under it
NextReview ==
    \/ \E t \in Threads : handleNewSession(t)
    \/ \E t \in Threads : handleTextMessage(t)
    \/ \E t \in Threads : readyForReviewCron(t)
    \/ \E t \in Threads : handlePublishBranchCallback(t)
    \/ \E t \in Threads : handlePublishPRCallback(t)
    \/ \E t \in Threads : handleDeleteSessionCallback(t)

InitReview == InitBot /\ engine = "cron"

SpecReview == InitReview /\ [][NextReview]_vars

\* the creation, the deletion and the reconciliation of sessions, in both engines
NextTrack ==
    \/ \E t \in Threads : handleTextMessage(t)
    \/ \E t \in Threads : onMessageText(t)
    \/ \E t \in Threads : onMessagePhoto(t)
    \/ \E t \in Threads : readyForReviewCron(t)
    \/ \E t \in Threads : handleDeleteSessionCallback(t)
    \/ \E t \in Threads : onCallbackDeleteSession(t)
    \/ \E k \in 1..MaxCreated : pollSessionInfo(k)
    \/ \E sessionId \in 1..MaxCreated : deleteOnJules(sessionId)
    \/ syncSessionsForGroupCron
    \/ syncSessionsForGroupJot

SpecTrack == InitBot /\ [][NextTrack]_vars

(***************************************************************************)
(* The cached getKV / setKV / deleteKV of the jot engine.  The cache is a  *)
(* Map of the module, so it lives as long as the isolate and is shared by  *)
(* the invocations that the isolate serves; the store is shared by all.    *)
(***************************************************************************)

Isolates == 1..MaxIsolates

\* the constructed keys that the invocations read and write through the helpers
CachedKeys ==
    {constructKey("1", <<"jules_token">>),
     constructKey("1", <<"topic", "1", "last_activity_timestamp">>)}

StoredValues == 1..MaxValues

InitCache ==
    /\ store = [k \in CachedKeys |-> NULL]
    /\ cache = [i \in Isolates |-> [k \in CachedKeys |-> <<>>]]
    /\ inv = <<>>
    /\ seen = <<>>
    /\ PollIdle
    /\ OrchIdle
    /\ RetryIdle
    /\ PageIdle
    /\ PureIdle
    /\ BotIdle

\* getFromCache: the value of an entry that is younger than CACHE_TTL, else null;
\* an entry is <<>> when the Map has none and <<value>> otherwise
getFromCache(i, k) == IF cache[i][k] = <<>> THEN NULL ELSE cache[i][k][1]

\* setInCache: the entry of the key is replaced
setInCache(i, k, value) == cache' = [cache EXCEPT ![i][k] = <<value>>]

\* an entry grows older than CACHE_TTL: the next getFromCache deletes it
expireEntry(i, k) ==
    /\ cache[i][k] # <<>>
    /\ cache' = [cache EXCEPT ![i][k] = <<>>]
    /\ UNCHANGED <<store, inv, seen>>
    /\ UNCHANGED notIsoVars

\* getKV in an invocation served by isolate i: the cached value when there is one,
\* else the stored value, which is cached when it is not null
getKV(i, k) ==
    /\ LET cachedValue == getFromCache(i, k) IN
       IF cachedValue # NULL
       THEN /\ seen' = <<[isolate |-> i, key |-> k, value |-> cachedValue, stored |-> store[k]]>>
            /\ UNCHANGED cache
       ELSE /\ seen' = <<[isolate |-> i, key |-> k, value |-> store[k], stored |-> store[k]]>>
            /\ IF store[k] # NULL THEN setInCache(i, k, store[k]) ELSE UNCHANGED cache
    /\ UNCHANGED <<store, inv>>
    /\ UNCHANGED notIsoVars

\* setKV in an invocation served by isolate i
setKV(i, k, value) ==
    /\ setInCache(i, k, <<value>>)
    /\ store' = [store EXCEPT ![k] = <<value>>]
    /\ UNCHANGED <<inv, seen>>
    /\ UNCHANGED notIsoVars

\* deleteKV in an invocation served by isolate i
deleteKV(i, k) ==
    /\ setInCache(i, k, NULL)
    /\ store' = [store EXCEPT ![k] = NULL]
    /\ UNCHANGED <<inv, seen>>
    /\ UNCHANGED notIsoVars

NextCache ==
    \/ \E i \in Isolates, k \in CachedKeys : getKV(i, k)
    \/ \E i \in Isolates, k \in CachedKeys, value \in StoredValues : setKV(i, k, value)
    \/ \E i \in Isolates, k \in CachedKeys : deleteKV(i, k)
    \/ \E i \in Isolates, k \in CachedKeys : expireEntry(i, k)

SpecCache == InitCache /\ [][NextCache]_vars

(***************************************************************************)
(* The cache of the source list in the store, under a key made from a hash *)
(* of the credential.  A credential is the sequence of its character codes.*)
(***************************************************************************)

\* the credentials of the tenants: 'Aa', 'BB' and 'AB'
Tokens == {<<65, 97>>, <<66, 66>>, <<65, 66>>}

\* 'hash & hash': the conversion to a 32-bit integer; the credentials of the model are
\* too short for a value to leave 32 bits, where the conversion changes nothing
ToInt32(x) == x

abs(x) == IF x < 0 THEN -x ELSE x

\* Number.prototype.toString(36) of a non-negative integer: its digits in base 36
RECURSIVE toString36(_)
toString36(n) ==
    IF n < 36 THEN <<n>> ELSE Append(toString36(n \div 36), n % 36)

\* the loop of hashToken over the characters i..Len(tok), from the value hash
RECURSIVE hashFrom(_, _, _)
hashFrom(tok, i, hash) ==
    IF i > Len(tok) THEN hash
    ELSE hashFrom(tok, i + 1, ToInt32(((hash * 32) - hash) + tok[i]))

hashToken(tok) == toString36(abs(hashFrom(tok, 1, 0)))

\* the source lists that the remote answers
SourceLists == 1..MaxValues

SourceKeys == {sourcesCacheKey(hashToken(tok)) : tok \in Tokens}

InitSources ==
    /\ store = [k \in SourceKeys |-> NULL]
    /\ cache = <<>>
    /\ inv = <<>>
    /\ seen = <<>>
    /\ PollIdle
    /\ OrchIdle
    /\ RetryIdle
    /\ PageIdle
    /\ PureIdle
    /\ BotIdle

\* setSourcesCache: the list is put under the key of the credential; the model keeps
\* with the list the credential whose listing it is
setSourcesCache(tok, sources) ==
    /\ store' = [store EXCEPT ![sourcesCacheKey(hashToken(tok))] =
                    <<[owner |-> tok, sources |-> sources]>>]
    /\ UNCHANGED <<cache, inv, seen>>
    /\ UNCHANGED notIsoVars

\* getSourcesCache: what the key of the credential holds, or null
getSourcesCache(tok) ==
    /\ seen' = <<[token |-> tok, cached |-> store[sourcesCacheKey(hashToken(tok))]]>>
    /\ UNCHANGED <<store, cache, inv>>
    /\ UNCHANGED notIsoVars

\* clearSourcesCache: the key of the credential is deleted; the entry also leaves the
\* store by itself one hour after it was put
clearSourcesCache(tok) ==
    /\ store' = [store EXCEPT ![sourcesCacheKey(hashToken(tok))] = NULL]
    /\ UNCHANGED <<cache, inv, seen>>
    /\ UNCHANGED notIsoVars

NextSources ==
    \/ \E tok \in Tokens, sources \in SourceLists : setSourcesCache(tok, sources)
    \/ \E tok \in Tokens : getSourcesCache(tok)
    \/ \E tok \in Tokens : clearSourcesCache(tok)

SpecSources == InitSources /\ [][NextSources]_vars

(***************************************************************************)
(* The classification of the errors of the remote API: request throws an   *)
(* Error whose message holds the status and the body of the response, and  *)
(* the two predicates read that message.                                   *)
(***************************************************************************)

\* the statuses of the responses that are not ok
ErrorStatuses == {400, 401, 403, 404, 409, 429, 500, 503}

\* the bodies of the responses that are not ok
ErrorTexts ==
    {"Unauthorized", "Forbidden", "Not Found", "not found", "401", "403", "404", "internal"}

ApiErrors == [status : ErrorStatuses, text : ErrorTexts]

InitClassify ==
    /\ input \in ApiErrors
    /\ output = <<>>
    /\ PollIdle
    /\ OrchIdle
    /\ RetryIdle
    /\ PageIdle
    /\ BotIdle
    /\ IsoIdle

\* isAuthError(error) on the Error that request threw
isAuthErrorCall ==
    /\ output' = <<[fn |-> "isAuthError", value |-> isAuthError(input)]>>
    /\ UNCHANGED <<input, notPureVars>>

\* isSessionNotFoundError(error) on the Error that request threw
isSessionNotFoundErrorCall ==
    /\ output' = <<[fn |-> "isSessionNotFoundError", value |-> isSessionNotFoundError(input)]>>
    /\ UNCHANGED <<input, notPureVars>>

NextClassify ==
    \/ isAuthErrorCall
    \/ isSessionNotFoundErrorCall

SpecClassify == InitClassify /\ [][NextClassify]_vars

(***************************************************************************)
(* Webhook invocations that overlap.  An invocation yields at every await, *)
(* so the reads and the writes of the store by several invocations         *)
(* interleave; the store offers get and put and nothing else.              *)
(***************************************************************************)

Webhooks == 1..MaxWebhooks

\* the invocation i moves to the position next, with the fields changed as given
Proceed(i, next, changed) ==
    inv' = [inv EXCEPT ![i] = [f \in DOMAIN inv[i] |->
                IF f = "pc" THEN next
                ELSE IF f \in DOMAIN changed THEN changed[f]
                ELSE inv[i][f]]]

\* the faulty variant of the test of the session record: a session is always created
noSessionEver(session) == TRUE

\* if (!session): the thread has no session record
noSession(session) == session = NULL

\* the entry of the index for a session id, in a group of one thread
EntryOf(sessionId) == [sessionId |-> sessionId, topicId |-> 0]

\* how often the id is in the index
CountOf(index, sessionId) ==
    Cardinality({k \in 1..Len(index) : index[k].sessionId = sessionId})

InitWebhooks(first, stored) ==
    /\ store = [session |-> NULL, index |-> stored]
    /\ cache = <<>>
    /\ inv \in [Webhooks -> [pc : {first}, session : {NULL}, index : {<<>>},
                             update : {"add", "remove"}, id : 0..4]]
    /\ seen = {}
    /\ PollIdle
    /\ OrchIdle
    /\ RetryIdle
    /\ PageIdle
    /\ PureIdle
    /\ BotIdle

\* first messages in a thread that has no session: every invocation is a message
\* handler that has yet to read the session record
InitFirstMessages ==
    /\ InitWebhooks("getSession", <<>>)
    /\ \A i \in Webhooks : inv[i].update = "add" /\ inv[i].id = 0

\* let session = await getSession(ctx.env, groupId, topicId)
webhookGetSession(i) ==
    /\ inv[i].pc = "getSession"
    /\ Proceed(i, "createSession", [session |-> store.session])
    /\ UNCHANGED <<store, cache, seen>>
    /\ UNCHANGED notIsoVars

\* if (!session) { julesSession = await julesClient.createSession(...) }: the remote
\* creates the next session, or the call throws and the catch replies; with a session
\* the message is sent to it
webhookCreateSession(i) ==
    /\ inv[i].pc = "createSession"
    /\ IF noSession(inv[i].session)
       THEN \/ /\ Proceed(i, "setSession", [id |-> Cardinality(seen) + 1])
               /\ seen' = seen \cup {Cardinality(seen) + 1}
            \/ /\ Proceed(i, "done", <<>>)
               /\ UNCHANGED seen
       ELSE /\ Proceed(i, "done", <<>>)
            /\ UNCHANGED seen
    /\ UNCHANGED <<store, cache>>
    /\ UNCHANGED notIsoVars

\* await setSession(ctx.env, groupId, topicId, sessionData)
webhookSetSession(i) ==
    /\ inv[i].pc = "setSession"
    /\ store' = [store EXCEPT !.session = <<inv[i].id>>]
    /\ Proceed(i, "readIndex", <<>>)
    /\ UNCHANGED <<cache, seen>>
    /\ UNCHANGED notIsoVars

\* const index = await getSessionsIndex(env, groupId), the first await of
\* addToSessionsIndex and of removeFromSessionsIndex
getSessionsIndex(i) ==
    /\ inv[i].pc = "readIndex"
    /\ Proceed(i, "putIndex", [index |-> store.index])
    /\ UNCHANGED <<store, cache, seen>>
    /\ UNCHANGED notIsoVars

\* the put of addToSessionsIndex, made only when the index as read lacks the id, and
\* the put of removeFromSessionsIndex: the index as read, changed, replaces the
\* stored one
putSessionsIndex(i) ==
    /\ inv[i].pc = "putIndex"
    /\ LET added == addToSessionsIndex(inv[i].index, EntryOf(inv[i].id))
           filtered == removeFromSessionsIndex(inv[i].index, inv[i].id)
       IN  IF inv[i].update = "add"
           THEN IF added = inv[i].index
                THEN UNCHANGED store
                ELSE store' = [store EXCEPT !.index = added]
           ELSE store' = [store EXCEPT !.index = filtered]
    /\ Proceed(i, "done", <<>>)
    /\ UNCHANGED <<cache, seen>>
    /\ UNCHANGED notIsoVars

NextFirstMessages ==
    \/ \E i \in Webhooks : webhookGetSession(i)
    \/ \E i \in Webhooks : webhookCreateSession(i)
    \/ \E i \in Webhooks : webhookSetSession(i)
    \/ \E i \in Webhooks : getSessionsIndex(i)
    \/ \E i \in Webhooks : putSessionsIndex(i)

SpecFirstMessages == InitFirstMessages /\ [][NextFirstMessages]_vars

\* updates of an index that holds the sessions 1 and 2: every invocation adds or
\* removes one id, and no two invocations name the same id
InitIndexUpdates ==
    /\ InitWebhooks("readIndex", <<EntryOf(1), EntryOf(2)>>)
    /\ \A i \in Webhooks : inv[i].id # 0
    /\ \A i \in Webhooks : inv[i].update = "remove" => inv[i].id \in {1, 2}
    /\ \A i, j \in Webhooks : i # j => inv[i].id # inv[j].id

NextIndexUpdates ==
    \/ \E i \in Webhooks : getSessionsIndex(i)
    \/ \E i \in Webhooks : putSessionsIndex(i)

SpecIndexUpdates == InitIndexUpdates /\ [][NextIndexUpdates]_vars

(***************************************************************************)
(* Helpers of the properties.                                              *)
(***************************************************************************)
Range(s) == {s[k] : k \in 1..Len(s)}

SentNames == {m.name : m \in sent}

\* the place of the activity named n in invocation i's batch
BatchIndex(i, n) == CHOOSE k \in 1..Len(batch[i]) : batch[i][k].name = n

\* the place in the remote list of the activity a cursor value names; 0 for no cursor
ListIndex(c) == IF c = NULL THEN 0 ELSE findIndex(remote, c[1])

Names(activities) == [k \in 1..Len(activities) |-> activities[k].name]

(***************************************************************************)
(* C1. If the dispatch of an activity A threw during a run, no cursor      *)
(* write of that run names an activity that comes after A in the batch.    *)
(***************************************************************************)
C1_CursorNotPastFailed ==
    \A i \in Invocations : \A a \in failed[i] : \A w \in Range(wrote[i]) :
        BatchIndex(i, w) < BatchIndex(i, a)

(***************************************************************************)
(* C2. No activity is skipped for good. Between runs, an activity that has *)
(* something to send and that the filter no longer selects under the       *)
(* stored cursor (so that no later run hands it to the dispatch step) has  *)
(* been sent: an activity that is left behind the cursor unsent is never   *)
(* dispatched, whatever its send would do.                                 *)
(***************************************************************************)
C2_NoActivitySkipped ==
    (\A i \in Invocations : pc[i] \in Stopped) =>
        \A k \in 1..Len(remote) :
            (remote[k].shape # "empty" /\ remote[k] \notin Range(newActivities(remote, cursor)))
                => remote[k].name \in SentNames

\* the same for the jot engine
C2_NoActivitySkippedJot ==
    (\A i \in Invocations : pc[i] \in Stopped) =>
        \A k \in 1..Len(remote) :
            (/\ remote[k].shape # "null"
             /\ remote[k] \notin Range(filterNew(remote, IF cursor = NULL THEN Epoch ELSE cursor[1])))
                => remote[k].name \in SentNames

\* once the cron cursor has passed an activity it stays passed: being skipped is for good
C2_SkippedStaysSkipped ==
    [][\A k \in 1..Len(remote) :
          remote[k] \notin Range(newActivities(remote, cursor))
              => remote[k] \notin Range(newActivities(remote, cursor'))]_vars

(***************************************************************************)
(* C3. When a run has ended on its own and the dispatch of an activity of  *)
(* its batch threw, every later activity of the batch was handed to the    *)
(* dispatch step in that run.                                              *)
(***************************************************************************)
C3_LaterStillDispatched ==
    \A i \in Invocations :
        pc[i] \in {"done", "error"} =>
            \A a \in failed[i] : \A k \in (BatchIndex(i, a) + 1)..Len(batch[i]) :
                batch[i][k].name \in Range(tried[i])

(***************************************************************************)
(* C4. Every cursor write for an activity follows a completed send for     *)
(* that activity.                                                          *)
(***************************************************************************)
C4_WriteOnlyAfterSend ==
    \A i \in Invocations : \A w \in Range(wrote[i]) : w \in SentNames

(***************************************************************************)
(* C5. The activities of a run are dispatched in ascending creation order, *)
(* in whatever order the remote lists them.                                *)
(***************************************************************************)
C5_AscendingDispatch ==
    \A i \in Invocations : \A j, k \in 1..Len(tried[i]) :
        j < k => ~Older(ActivityByName(tried[i][k]), ActivityByName(tried[i][j]))

(***************************************************************************)
(* C6. With two overlapping invocations the stored cursor never moves      *)
(* backward: no write replaces it with an activity older than the one it   *)
(* held.                                                                   *)
(***************************************************************************)
C6_CursorNeverMovesBack ==
    [][(cursor # NULL /\ cursor' # cursor)
          => ~Older(ActivityByName(cursor'[1]), ActivityByName(cursor[1]))]_vars

(***************************************************************************)
(* C6, as amended. Each invocation writes only activities listed after the *)
(* one named by the cursor value it read itself, and writes them in the    *)
(* order of the list; the value a write replaces may be a later activity   *)
(* written by the other invocation.                                        *)
(***************************************************************************)
C6_WritesAfterOwnRead ==
    \A i \in Invocations : \A k \in 1..Len(wrote[i]) :
        /\ ListIndex(<<wrote[i][k]>>) > ListIndex(lastRead[i])
        /\ k > 1 => ListIndex(<<wrote[i][k]>>) > ListIndex(<<wrote[i][k - 1]>>)

\* two invocations have written, and the cursor holds an older activity than one of them wrote
C6_OverlapMovedBack ==
    \E i, j \in Invocations :
        /\ i # j
        /\ wrote[i] # <<>>
        /\ cursor = <<wrote[i][Len(wrote[i])]>>
        /\ \E w \in Range(wrote[j]) : Older(ActivityByName(cursor[1]), ActivityByName(w))

(***************************************************************************)
(* C7. Within one invocation every cursor write is of an activity that is  *)
(* not older than the value the cursor held: the value read at the start   *)
(* for the first write, the previous write for the later ones.             *)
(***************************************************************************)
C7_WritesAscending ==
    \A i \in Invocations : \A k \in 1..Len(wrote[i]) :
        getTime(ActivityByName(wrote[i][k]).createTime) >=
            IF k = 1 THEN getTime(lastRead[i][1])
                     ELSE getTime(ActivityByName(wrote[i][k - 1]).createTime)

\* the same for the cron engine, whose cursor is a name
C7_WritesAscendingCron ==
    \A i \in Invocations : \A k \in 1..Len(wrote[i]) :
        /\ (k = 1 /\ lastRead[i] # NULL /\ ListIndex(lastRead[i]) # 0)
              => ~Older(ActivityByName(wrote[i][k]), ActivityByName(lastRead[i][1]))
        /\ k > 1 => ~Older(ActivityByName(wrote[i][k]), ActivityByName(wrote[i][k - 1]))

C9_RerunDispatchesNothing ==
    \A i \in Invocations : prevClean[i] => tried[i] = <<>>

(***************************************************************************)
(* C10. A run dispatches no activity whose cursor write completed in an    *)
(* earlier run, however that run stopped. (The claim says so of every      *)
(* activity that was sent; this is the case most favourable to it.)        *)
(***************************************************************************)
C10_AckedNotResent ==
    \A i \in Invocations : Range(tried[i]) \cap ackedBefore = {}

(***************************************************************************)
(* C11. When the cursor a run read is stored but names no activity of the  *)
(* fetched list, the run hands to the dispatch step the activities of the  *)
(* list from the first one on, in list order, and when it has ended, all   *)
(* of them.                                                                *)
(***************************************************************************)
C11_MissingCursorAllNew ==
    \A i \in Invocations :
        (lastRead[i] # NULL /\ ListIndex(lastRead[i]) = 0) =>
            /\ pc[i] \in {"process", "write", "done"} => batch[i] = remote
            /\ Len(tried[i]) <= Len(remote)
            /\ tried[i] = SubSeq(Names(remote), 1, Len(tried[i]))
            /\ pc[i] = "done" => tried[i] = Names(remote)

\* a run that read a cursor naming no listed activity has ended, having dispatched the
\* whole list of several activities
C11_StaleRunDone ==
    /\ lastRead[1] = StaleCursor
    /\ Len(remote) >= 2
    /\ pc[1] = "done"
    /\ tried[1] = Names(remote)

\* the run of the loop over the sessions has ended
RunEnded == opc \in {"done", "aborted"}

\* the poll of the k-th polled session met an error of the given kind
MetAuthError(k) ==
    fault[polled[k].sessionId] \in FetchErrors /\ fault[polled[k].sessionId].status \in {401, 403}

MetNotFound(k) ==
    fault[polled[k].sessionId] \in FetchErrors /\ fault[polled[k].sessionId].status = 404

(***************************************************************************)
(* C12. Auth halt: once the fetch of a session's activities has failed     *)
(* with 401 or 403, no further session of the same group is polled in that *)
(* run; and when the run has ended, every session of a group that has a    *)
(* token and met no such failure has been polled.                          *)
(***************************************************************************)
C12_AuthHaltsGroup ==
    /\ \A j, k \in 1..Len(polled) :
          (j < k /\ MetAuthError(j)) => polled[k].groupId # polled[j].groupId
    /\ opc = "done" =>
          \A n \in 1..Len(loopList) :
              (/\ token[loopList[n].groupId]
               /\ \A j \in 1..Len(polled) :
                     MetAuthError(j) => polled[j].groupId # loopList[n].groupId)
                  => loopList[n] \in Range(polled)

C19_FailureIsolated ==
    (RunEnded /\ \A j \in 1..Len(polled) : ~MetAuthError(j)) =>
        \A n \in 1..Len(loopList) :
            token[loopList[n].groupId] => loopList[n] \in Range(polled)

\* the result of a listing reports hasMore = true
ReportsMore(r) == "hasMore" \in DOMAIN r /\ r.hasMore

\* the statuses of authentication and not-found errors
NotRetriedStatuses == {401, 403, 404}

\* a * b^n
RECURSIVE Scaled(_, _, _)
Scaled(a, b, n) == IF n = 0 THEN a ELSE Scaled(a * b, b, n - 1)

(***************************************************************************)
(* C13. A remote call that fails with 401, 403 or 404 is attempted once:   *)
(* the attempt that raised such an error is the last one, the call has     *)
(* thrown, and no sleep followed the error.                                *)
(***************************************************************************)
C13_AuthNotFoundNotRetried ==
    \A k \in 1..Len(raised) :
        raised[k].status \in NotRetriedStatuses =>
            /\ k = Len(raised)
            /\ rpc = "thrown"
            /\ Len(sleeps) < k

(***************************************************************************)
(* C14. One call of createSession makes the remote create one session at   *)
(* most, also when an attempt failed after the remote had carried out the  *)
(* request.                                                                *)
(***************************************************************************)
C14_OneSessionPerAction ==
    rop = "createSession" => accepted <= 1

(***************************************************************************)
(* C15. The k-th sleep of a call lasts min(delay, maxDelay), where delay   *)
(* is initialDelay multiplied k - 1 times by the multiplier; no sleep is   *)
(* longer than maxDelay.                                                   *)
(***************************************************************************)
C15_SleepIsCappedDelay ==
    \A k \in 1..Len(sleeps) :
        /\ sleeps[k] = Min(Scaled(finalConfig.initialDelayMs, finalConfig.backoffMultiplier, k - 1),
                           finalConfig.maxDelayMs)
        /\ sleeps[k] <= finalConfig.maxDelayMs

(***************************************************************************)
(* C16. The executor invokes the operation maxAttempts times at most and   *)
(* every call of it ends; a call that threw after an attempt failed made   *)
(* maxAttempts invocations, each of which failed, and threw the error the  *)
(* last of them raised.                                                    *)
(***************************************************************************)
C16_BoundedAttemptsLastError ==
    /\ [](/\ ncalls <= finalConfig.maxAttempts
          /\ (rpc = "thrown" /\ ncalls > 0) =>
                /\ ncalls = finalConfig.maxAttempts
                /\ Len(raised) = ncalls
                /\ thrown = <<raised[Len(raised)]>>)
    /\ <>(rpc \in {"returned", "thrown"})

\* a call has thrown after three failed attempts, the last error unlike the first
C16_ExhaustedThreeAttempts ==
    /\ rpc = "thrown"
    /\ finalConfig.maxAttempts = 3
    /\ ncalls = 3
    /\ raised[1] # raised[3]
    /\ thrown = <<raised[3]>>

(***************************************************************************)
(* C17. In retryOnSpecificErrors, an error for which the predicate is      *)
(* false is thrown at once: the attempt that raised it is the last one, no *)
(* sleep follows it, and it is the error thrown, whatever attempts remain. *)
(***************************************************************************)
C17_PredicateFalsePropagates ==
    \A k \in 1..Len(raised) :
        ~shouldRetryError(shouldRetry, raised[k]) =>
            /\ k = Len(raised)
            /\ ncalls = k
            /\ rpc = "thrown"
            /\ thrown = <<raised[k]>>
            /\ Len(sleeps) = k - 1

\* after one retried error, an error the predicate rejects was thrown with an attempt left
C17_ThrownWithAttemptsLeft ==
    /\ rpc = "thrown"
    /\ Len(raised) = 2
    /\ finalConfig.maxAttempts >= 3
    /\ shouldRetryError(shouldRetry, raised[1])
    /\ ~shouldRetryError(shouldRetry, raised[2])
    /\ thrown = <<raised[2]>>
    /\ Len(sleeps) = 1

(***************************************************************************)
(* C20. When the catalog's pages follow one another, one page can be       *)
(* fetched within the caller's time budget and fetching them all takes     *)
(* longer, a listing that has returned did so within the budget, with      *)
(* fewer pages of items than the catalog holds and hasMore = true.         *)
(***************************************************************************)
C20_ReturnsWithinBudget ==
    (/\ ppc = "returned"
     /\ catalog \in LinearCatalogs
     /\ pageCost <= budget
     /\ Len(catalog) * pageCost > budget) =>
        /\ elapsed <= budget
        /\ Len(result[1].sources) < Len(catalog)
        /\ ReportsMore(result[1])

\* the listing has returned because the remote returned a token it had returned before
\* (it returns for no other reason with a token in hand and the ceiling not reached)
ReturnedOnSeenToken ==
    /\ ppc = "returned"
    /\ pageToken # 0
    /\ pageToken \in seenTokens
    /\ requestCount <= RequestCeiling

(***************************************************************************)
(* C21. When the remote returns a page token already seen in the same call *)
(* of the listing, the listing returns the items collected so far and its  *)
(* result reports hasMore = true.                                          *)
(***************************************************************************)
C21_SeenTokenReportsMore ==
    ReturnedOnSeenToken =>
        /\ result[1].sources = allSources
        /\ ReportsMore(result[1])

(***************************************************************************)
(* C22. A call of listSources issues 100 page requests at most.            *)
(***************************************************************************)
C22_AtMostCeilingRequests ==
    requestCount <= RequestCeiling

\* a call of refreshSourcesForToken issues maxPages page requests at most
C22_AtMostMaxPagesRequests ==
    requestCount <= maxPages

\* the activity carries a populated command output or a populated set of changed files
HasStructuralSignal(activity) ==
    \/ activity.bashOutput # <<>>
    \/ activity.changeSet # <<>> /\ activity.changeSet[1].files > 0

\* the text holds the phrase, in whatever case
HasPhrase(text, phrase) == \E k \in 1..Len(text) : LowerCasePhrase(text[k]) = phrase

SaysReadyForReview(activity) ==
    \/ HasPhrase(activity.title, "ready for review")
    \/ HasPhrase(activity.description, "ready for review")

(***************************************************************************)
(* C23. An activity that carries a populated command output or set of      *)
(* changed files is classified as a progress update, whatever phrase of a  *)
(* generated plan, an approved plan or a completion its title holds.       *)
(***************************************************************************)
C23_StructureOutranksTitle ==
    (/\ output # NULL
     /\ input.engine = "cron"
     /\ HasStructuralSignal(input)
     /\ ~SaysReadyForReview(input))
        => output[1].type = "progressUpdated"

\* what does hold: a completion phrase in the title yields to the structural signal
C23_StructureOutranksCompletion ==
    (/\ output # NULL
     /\ input.engine = "cron"
     /\ HasStructuralSignal(input)
     /\ ~SaysReadyForReview(input)
     /\ \A p \in {"plan generated", "plan created", "plan approved"} : ~HasPhrase(input.title, p))
        => output[1].type = "progressUpdated"

(***************************************************************************)
(* C24. An activity whose title or description holds 'ready for review',   *)
(* in whatever case, is classified as ready for review, whatever else it   *)
(* carries.                                                                *)
(***************************************************************************)
C24_ReadyForReviewWins ==
    (output # NULL /\ SaysReadyForReview(input))
        => output[1].type = "readyForReview"

\* the exit code of the command, when the activity has a command output with one
HasExitCode(activity) == activity.bashOutput # <<>> /\ activity.bashOutput[1].exitCode # <<>>

HasKeyword(activity) ==
    \E p \in {"error", "failed", "question"} :
        HasPhrase(activity.title, p) \/ HasPhrase(activity.description, p)

\* the decision table: must a notification of this activity ring
TableAudible(type, activity) ==
    CASE type = "planGenerated" -> TRUE
      [] type = "planApproved" -> FALSE
      [] type = "readyForReview" -> TRUE
      [] type = "sessionCompleted" -> TRUE
      [] type = "progressUpdated" ->
            \/ HasExitCode(activity) /\ activity.bashOutput[1].exitCode[1] # 0
            \/ activity.media # <<>>
      [] OTHER -> HasKeyword(activity)

RendersCommand == input.call \in {"formatBashOutput", "formatProgressBash"}

IsCollapsed(message) == "<blockquote expandable>" \in Range(message)

\* what stands inside the expandable block, without the tags around it
BlockBody(message) ==
    LET from == CHOOSE k \in 1..Len(message) : message[k] = "<blockquote expandable>"
        to == CHOOSE k \in 1..Len(message) : message[k] = "</blockquote>"
        isText(t) == t \notin {"<pre>", "</pre>", "<code>", "</code>"}
    IN  SelectSeq(SubSeq(message, from + 1, to - 1), isText)

EntityOf(ch) ==
    CASE ch = "&" -> EntityAmp
      [] ch = "<" -> EntityLt
      [] ch = ">" -> EntityGt
      [] ch = "\"" -> EntityQuot
      [] OTHER -> <<ch>>

\* the text with the characters of the set written as their entities
WrittenWith(text, escaped) ==
    Flatten([k \in 1..Len(text) |-> IF text[k] \in escaped THEN EntityOf(text[k]) ELSE <<text[k]>>])

\* the body is the whole text, each special character written as itself or as its entity
HoldsAll(body, text) == \E escaped \in SUBSET Chars : body = WrittenWith(text, escaped)

(***************************************************************************)
(* C26. A command output of fewer than 200 characters is rendered inline,  *)
(* a longer one as an expandable block that holds the whole output.        *)
(***************************************************************************)
C26_ThresholdDecidesCollapse ==
    (output # NULL /\ RendersCommand) =>
        /\ input.n < InlineThreshold => ~IsCollapsed(output[1])
        /\ input.n > InlineThreshold =>
                /\ IsCollapsed(output[1])
                /\ HoldsAll(BlockBody(output[1]), Repeat(input.unit, input.n))

\* what does hold: formatBashOutput of the cron engine follows the threshold
C26_CronThresholdDecidesCollapse ==
    input.call = "formatBashOutput" => C26_ThresholdDecidesCollapse

\* whatever the length, no engine cuts the output it shows
C26_NeverTruncated ==
    (output # NULL /\ RendersCommand /\ IsCollapsed(output[1])) =>
        HoldsAll(BlockBody(output[1]), Repeat(input.unit, input.n))

\* an entity begins at place k of the message
EntityAt(message, k) ==
    \E e \in {EntityAmp, EntityLt, EntityGt, EntityQuot} :
        /\ k + Len(e) - 1 <= Len(message)
        /\ SubSeq(message, k, k + Len(e) - 1) = e

(***************************************************************************)
(* C27. No character of a user- or remote-supplied string reaches the      *)
(* markup unescaped: an outgoing message holds no '<' and no '>' of such a *)
(* string, and every '&' in it begins an entity.                           *)
(***************************************************************************)
C27_EveryStringEscaped ==
    output # NULL =>
        \A k \in 1..Len(output[1]) :
            /\ output[1][k] \notin {"<", ">"}
            /\ output[1][k] = "&" => EntityAt(output[1], k)

\* what does hold: the formatters of commands and of change sets escape
C27_CommandsAndFilesEscaped ==
    input.call \in {"formatBashOutput", "formatChangeSet"} => C27_EveryStringEscaped

\* the handlers that can create a session
CreatingPaths ==
    {"handleNewSession", "handleTextMessage", "handlePhotoMessage", "message:text", "message:photo"}

\* the step is a run of a creating path on thread t
CreatingStep(t) == op' # <<>> /\ op'[1].thread = t /\ op'[1].name \in CreatingPaths

(***************************************************************************)
(* C28. A path that can create a session, run on a thread that has a       *)
(* session, creates no remote session and leaves the stored record as it   *)
(* is.                                                                     *)
(***************************************************************************)
C28_NoSecondSession ==
    [][\A t \in Threads :
        (sessionOf[t] # NULL /\ CreatingStep(t)) =>
            (created' = created /\ sessionOf'[t] = sessionOf[t])]_vars

\* what does hold: the three paths of the cron engine and the text path of the jot engine
C28_CheckedPathsNoSecondSession ==
    [][\A t \in Threads :
        (sessionOf[t] # NULL /\ CreatingStep(t) /\ op'[1].name # "message:photo") =>
            (created' = created /\ sessionOf'[t] = sessionOf[t])]_vars

(***************************************************************************)
(* C30. The pending-plan flag of a thread is true only while a             *)
(* plan-generated notification has been sent to the thread and no approval *)
(* has succeeded since.                                                    *)
(***************************************************************************)
C30_PendingOnlyWhilePlanShown ==
    \A t \in Threads : pendingPlan[t] = <<"true">> => planShown[t]

\* what does hold: no flag is true right after an approval that succeeded
C30_FalseAfterApproval ==
    [][\A t \in Threads :
        (planShown[t] /\ ~planShown'[t]) => pendingPlan'[t] # <<"true">>]_vars

\* the key begins with the prefix of the group
HasGroupPrefix(key, groupId) ==
    /\ Len(key) >= 2
    /\ key[1] = "group"
    /\ key[2] = groupId

(***************************************************************************)
(* C29. Every key that is read or written in the store for a group begins  *)
(* with the prefix of that group.                                          *)
(***************************************************************************)
C29_EveryKeyHasGroupPrefix ==
    output # NULL => \A key \in output[1] : HasGroupPrefix(key, input.groupId)

\* what does hold: the keys of the cron engine's storage functions, and the keys that
\* getKV, setKV, deleteKV, getSession and setSession of the jot engine construct
C29_ConstructedKeysHaveGroupPrefix ==
    input.fn \notin {"sourcesCache", "getActiveSessions", "addActiveSession",
                     "removeActiveSession", "getConfiguredGroups", "addConfiguredGroup"}
        => C29_EveryKeyHasGroupPrefix

\* C31: after a successful publish action (publish branch or publish PR) in a thread,
\* the ready-for-review flag of that thread is false.
C31_PublishClearsReadyForReview ==
    \A t \in Threads : published[t] => ~isReadyForReview(t)

\* C32: when a reconciliation pass observes that a tracked session no longer exists
\* remotely, the session leaves the sessions index and the session record, the cursor
\* and the flags of its thread are deleted.
C32_SweptSessionDestroyed ==
    [][op' = <<[name |-> "syncSessionsForGroup", thread |-> 0]>> =>
          \A t \in Threads :
              (/\ sessionOf[t] # NULL
               /\ sessionOf[t][1].id \in swept'
               /\ sessionOf[t][1].id \notin remoteSessions)
              => /\ sessionOf[t][1].id \notin IdsOf(activeSessions')
                 /\ sessionOf'[t] = NULL
                 /\ cursorOf'[t] = NULL
                 /\ pendingPlan'[t] = NULL
                 /\ readyForReview'[t] = NULL]_vars

\* C37: a reconciliation pass removes a session from the local tracking only if the
\* session does not exist remotely; an incomplete or failed listing removes nothing
\* that exists.
C37_OnlyMissingSessionsRemoved ==
    [][op' = <<[name |-> "syncSessionsForGroup", thread |-> 0]>> =>
          (IdsOf(activeSessions) \ IdsOf(activeSessions')) \cap remoteSessions = {}]_vars

\* C37, the half about a listing that fails: a pass that observed nothing missing
\* leaves the index as it was.
C37_FailedListingRemovesNothing ==
    [][(op' = <<[name |-> "syncSessionsForGroup", thread |-> 0]>> /\ swept' = {}) =>
          activeSessions' = activeSessions]_vars

\* C39: whenever no operation is in progress, a session id is in the sessions index
\* exactly when some thread holds a session record with that id.
C39_IndexMatchesRecords ==
    IdsOf(activeSessions) = {sessionOf[t][1].id : t \in {u \in Threads : sessionOf[u] # NULL}}

\* C33: no state is carried in memory from one invocation to the next: every value
\* that an invocation reads through the storage helpers equals the value that the
\* store holds at the time of the read.
C33_ReadEqualsStored ==
    seen # <<>> => seen[1].value = seen[1].stored

\* C34: the cached source list is per credential: a list stored under one credential
\* is never returned for a lookup made with a different credential.
C34_CachedListIsOfTheCredential ==
    (seen # <<>> /\ seen[1].cached # NULL) => seen[1].cached[1].owner = seen[1].token

\* C35: when an activity that the chat has already received is handed to the dispatch
\* step again, the step completes, whatever the send does, and the loop goes on: to
\* the cursor write of the activity, to the next activity of the batch, or to the end
\* of a batch that has no more.
C35_RedeliveryTolerated ==
    [][\A i \in Invocations :
          (/\ pc[i] = "process"
           /\ tried'[i] # tried[i]
           /\ \E s \in sent : s.name = batch[i][pos[i]].name)
          => \/ pc'[i] = "write" /\ pos'[i] = pos[i]
             \/ pc'[i] = "process" /\ pos'[i] = pos[i] + 1
             \/ pc'[i] = "done" /\ pos[i] = Len(batch[i])]_vars

\* C35, reached: two overlapping runs have both dispatched the same activity, which
\* was not the last of its batch, and both have run to the end.
C35_RedeliveredAndCompleted ==
    \E i, j \in Invocations :
        /\ i # j
        /\ pc[i] = "done"
        /\ pc[j] = "done"
        /\ Len(tried[i]) > 1
        /\ tried[i] = tried[j]
        /\ failed[j] # {}
        /\ \E s \in sent : s.name = tried[i][1]

\* C40: an error of the remote API is classified as an authentication error exactly
\* when the status of the response was 401 or 403, and as session-not-found exactly
\* when the status was 404, whatever the body of the response says; no error is
\* classified as both.
C40_ClassifiedByStatus ==
    output # <<>> =>
        /\ output[1].fn = "isAuthError" => (output[1].value <=> input.status \in {401, 403})
        /\ output[1].fn = "isSessionNotFoundError" => (output[1].value <=> input.status = 404)
        /\ ~(isAuthError(input) /\ isSessionNotFoundError(input))

\* C40, what holds: a response with status 401 or 403 is always classified as an
\* authentication error and a response with status 404 as session-not-found.
C40_StatusIsSufficient ==
    output # <<>> =>
        /\ (output[1].fn = "isAuthError" /\ input.status \in {401, 403}) => output[1].value
        /\ (output[1].fn = "isSessionNotFoundError" /\ input.status = 404) => output[1].value

C38_AllUpdatesPreserved ==
    (\A i \in Webhooks : inv[i].pc = "done") =>
        \A i \in Webhooks :
            IF inv[i].update = "add"
            THEN CountOf(store.index, inv[i].id) = 1
            ELSE CountOf(store.index, inv[i].id) = 0

\* C38, what holds: when an update completes, the stored index holds its own change:
\* the added id exactly once, the removed id not at all.
C38_OwnUpdateStored ==
    [][\A i \in Webhooks :
          (inv[i].pc = "putIndex" /\ inv'[i].pc = "done") =>
              IF inv[i].update = "add"
              THEN CountOf(store'.index, inv[i].id) = 1
              ELSE CountOf(store'.index, inv[i].id) = 0]_vars

\* C38, reached: two updates that read the same index have completed and the index
\* lacks an id that one of them added.
C38_UpdateLost ==
    /\ \A i \in Webhooks : inv[i].pc = "done"
    /\ \E i, j \in Webhooks : i # j /\ inv[i].index = inv[j].index
    /\ \E i \in Webhooks : inv[i].update = "add" /\ CountOf(store.index, inv[i].id) = 0

====
